---- MODULE Spec2Model ----
(***************************************************************************)
(* Verification model of the vector-field visualisation workspace:         *)
(*   - FunctionParser  (src/src/index.js)                                   *)
(*   - VectorField     (src/unnamed/part_008, VectorField.js)               *)
(*   - the visualization modes and the SceneManager (part_002 .. part_006)  *)
(*   - UIController (part_000) and VectorFieldVisualizer (part_008)         *)
(*   - RenderEngine (part_000) and CameraController (part_001)              *)
(*                                                                         *)
(* JavaScript numbers are modelled as exact rationals extended with the    *)
(* IEEE special values NaN, +Infinity and -Infinity.  Rounding and signed  *)
(* zeros are abstracted away; the special-value rules (x/0, 0*Infinity,    *)
(* Infinity-Infinity) are kept because the code's validity checks          *)
(* (Number.isFinite) depend on them.                                       *)
(***************************************************************************)
EXTENDS Integers, Sequences, FiniteSets, TLC

(***************************************************************************)
(* Bounds of the model.                                                    *)
(***************************************************************************)
MaxSteps == 3
MaxResolution == 3
MaxCoord == 1

(***************************************************************************)
(* Numbers.  [n, d] with d > 0 is the rational n/d in lowest terms;        *)
(* d = 0 encodes NaN (n = 0), +Infinity (n = 1), -Infinity (n = -1);       *)
(* d = -1 encodes a value that is not of type number (a string, say).      *)
(***************************************************************************)
Abs(n) == IF n < 0 THEN -n ELSE n

Sgn(n) == IF n > 0 THEN 1 ELSE IF n < 0 THEN -1 ELSE 0

RECURSIVE GCD(_, _)
GCD(a, b) == IF b = 0 THEN a ELSE GCD(b, a % b)

Num(n, d) ==
    IF d = 0 THEN [n |-> Sgn(n), d |-> 0]
    ELSE LET s == IF d < 0 THEN -1 ELSE 1
             g == GCD(Abs(n), Abs(d))
         IN  [n |-> (s * n) \div g, d |-> Abs(d) \div g]

I(k) == [n |-> k, d |-> 1]

NaN == [n |-> 0, d |-> 0]

PosInf == [n |-> 1, d |-> 0]

NegInf == [n |-> -1, d |-> 0]

NotANumber == [n |-> 7, d |-> -1]

NumAdd(a, b) ==
    IF a.d = 0 /\ b.d = 0
    THEN (IF a.n = b.n THEN a ELSE NaN)
    ELSE Num(a.n * b.d + b.n * a.d, a.d * b.d)

NumNeg(a) == [n |-> -a.n, d |-> a.d]

NumSub(a, b) == NumAdd(a, NumNeg(b))

NumMul(a, b) == Num(a.n * b.n, a.d * b.d)

NumRecip(b) ==
    IF b.d = 0 THEN (IF b.n = 0 THEN NaN ELSE I(0))
    ELSE IF b.n = 0 THEN PosInf
    ELSE Num(b.d, b.n)

NumDiv(a, b) == NumMul(a, NumRecip(b))

NumLess(a, b) == a.d > 0 /\ b.d > 0 /\ a.n * b.d < b.n * a.d

\* Number.isFinite(v): true only for values of type number that are finite.
NumberIsFinite(v) == v.d > 0


(***************************************************************************)
(* JavaScript objects used as maps (positions, parameter bindings, scopes)  *)
(* are functions from property names to values.  {...a, ...b} is Merge.     *)
(***************************************************************************)
EmptyObject == [k \in {} |-> NaN]

Merge(a, b) ==
    [k \in (DOMAIN a) \cup (DOMAIN b) |-> IF k \in DOMAIN b THEN b[k] ELSE a[k]]

(***************************************************************************)
(* Math.js expression trees.  Every node is a record                        *)
(* [type, name, val, args]; args holds the node's children (args of an      *)
(* OperatorNode or FunctionNode, content of a ParenthesisNode, condition /  *)
(* trueExpr / falseExpr of a ConditionalNode).                              *)
(***************************************************************************)
Sym(s) == [type |-> "SymbolNode", name |-> s, val |-> 0, args |-> <<>>]

Const(k) == [type |-> "ConstantNode", name |-> "", val |-> k, args |-> <<>>]

\* math.parse("") is a ConstantNode whose value is undefined.
UndefinedConst == [type |-> "ConstantNode", name |-> "undefined", val |-> 0, args |-> <<>>]

Op(fn, as) == [type |-> "OperatorNode", name |-> fn, val |-> 0, args |-> as]

Fn(f, as) == [type |-> "FunctionNode", name |-> f, val |-> 0, args |-> as]

Paren(c) == [type |-> "ParenthesisNode", name |-> "", val |-> 0, args |-> <<c>>]

Cond(c, t, f) == [type |-> "ConditionalNode", name |-> "", val |-> 0, args |-> <<c, t, f>>]

Undefined == [n |-> 0, d |-> -1]

\* Number(value) as applied to what math.evaluate returned.
ToNumber(v) == IF v.d = -1 THEN NaN ELSE v

\* Rational stand-ins for Math.PI and Math.E (only their identity matters).
MathPI == Num(355, 113)

MathE == Num(193, 71)

Thrown == [ok |-> FALSE, v |-> NaN]

Value(v) == [ok |-> TRUE, v |-> v]

\* The functions Math.js knows, among those the model's expressions call.
\* "foo" is unknown to Math.js: evaluating a call to it throws.
ApplyFunction(f, vs) ==
    CASE f = "abs" /\ Len(vs) = 1 -> Value([n |-> Abs(vs[1].n), d |-> vs[1].d])
      [] f = "max" /\ Len(vs) = 2 -> Value(IF NumLess(vs[1], vs[2]) THEN vs[2] ELSE vs[1])
      [] f = "square" /\ Len(vs) = 1 -> Value(NumMul(vs[1], vs[1]))
      [] OTHER -> Thrown

ApplyOperator(fn, vs) ==
    CASE fn = "add" /\ Len(vs) = 2 -> Value(NumAdd(vs[1], vs[2]))
      [] fn = "subtract" /\ Len(vs) = 2 -> Value(NumSub(vs[1], vs[2]))
      [] fn = "multiply" /\ Len(vs) = 2 -> Value(NumMul(vs[1], vs[2]))
      [] fn = "divide" /\ Len(vs) = 2 -> Value(NumDiv(vs[1], vs[2]))
      [] fn = "unaryMinus" /\ Len(vs) = 1 -> Value(NumNeg(vs[1]))
      [] fn = "larger" /\ Len(vs) = 2 ->
            Value(IF NumLess(vs[2], vs[1]) THEN I(1) ELSE I(0))
      [] OTHER -> Thrown

\* math.evaluate on an expression tree with a scope: a value, or Thrown
\* (undefined symbol, unknown function).
RECURSIVE MathEvaluate(_, _)
MathEvaluate(node, scope) ==
    LET kids == [i \in 1..Len(node.args) |-> MathEvaluate(node.args[i], scope)]
        allOk == \A i \in 1..Len(node.args) : kids[i].ok
        vals == [i \in 1..Len(node.args) |-> kids[i].v]
    IN  CASE node.type = "ConstantNode" ->
                Value(IF node.name = "undefined" THEN Undefined ELSE I(node.val))
          [] node.type = "SymbolNode" ->
                IF node.name \in DOMAIN scope THEN Value(scope[node.name]) ELSE Thrown
          [] node.type = "ParenthesisNode" -> kids[1]
          [] node.type = "OperatorNode" ->
                IF allOk THEN ApplyOperator(node.name, vals) ELSE Thrown
          [] node.type = "FunctionNode" ->
                IF allOk THEN ApplyFunction(node.name, vals) ELSE Thrown
          [] node.type = "ConditionalNode" ->
                IF ~kids[1].ok THEN Thrown
                ELSE IF kids[1].v.d > 0 /\ kids[1].v.n # 0
                     THEN MathEvaluate(node.args[2], scope)
                     ELSE MathEvaluate(node.args[3], scope)
          [] OTHER -> Thrown

(***************************************************************************)
(* What a field function returns to its caller: an exception, null, a       *)
(* number, or an array.                                                     *)
(***************************************************************************)
RawThrow == [kind |-> "throw", arr |-> <<>>]

RawNull == [kind |-> "null", arr |-> <<>>]

RawNumber == [kind |-> "number", arr |-> <<>>]

RawArray(a) == [kind |-> "array", arr |-> a]

\* The closure FunctionParser.parse returns: evaluates every compiled
\* component in the scope {...position, ...params, pi, e}.
CompiledFunc(compiled, position, params) ==
    LET scope == Merge(Merge(position, params), [pi |-> MathPI, e |-> MathE])
        vals == [i \in 1..Len(compiled) |-> MathEvaluate(compiled[i], scope)]
    IN  IF \E i \in 1..Len(compiled) : ~vals[i].ok
        THEN RawNull
        ELSE RawArray([i \in 1..Len(compiled) |-> ToNumber(vals[i].v)])

\* A field function handed to the VectorField constructor: a closure of the
\* parser, or any other function of (position, params).
Compiled(cs) == [kind |-> "compiled", comps |-> cs]

Foreign(k) == [kind |-> k, comps |-> <<>>]

CallFunc(func, position, params) ==
    CASE func.kind = "compiled" -> CompiledFunc(func.comps, position, params)
      [] func.kind = "throws" -> RawThrow
      [] func.kind = "returnsNull" -> RawNull
      [] func.kind = "returnsNumber" -> RawNumber
      [] func.kind = "returnsString" -> RawArray(<<NotANumber, I(1), I(1)>>)
      [] OTHER -> RawThrow


(***************************************************************************)
(* State.                                                                   *)
(*   vf    the VectorField instance: [dimension, func, bounds, params];     *)
(*         params is the identity of the object held in this.params         *)
(*   heap  the parameter-binding objects, by identity                       *)
(*   ret   the last completed call on the VectorField and what it returned  *)
(*   rk    the activation of integrateRK4                                   *)
(*   ps    the last call of FunctionParser.parse, or of testFunction, and   *)
(*         what it returned                                                 *)
(*   view  the reference to the bounds object that a caller holds           *)
(*   mode  the VisualizationMode instance: its config, meshes, particles    *)
(*   scene the SceneManager: its mesh list                                  *)
(*   ui    the UIController: its state and its last handler call (the       *)
(*         application's vectorField is vf)                                 *)
(*   viz   the VectorFieldVisualizer: field type, custom formulas, and the  *)
(*         texts it ran as host code                                        *)
(***************************************************************************)
VARIABLES vf, heap, ret, rk, ps, view, mode, scene, ui, viz, app

vars == <<vf, heap, ret, rk, ps, view, mode, scene, ui, viz, app>>

\* The part of the state that belongs to the callers of the VectorField: the
\* reference a caller got from getBounds (view), the visualization mode and
\* the SceneManager it draws into (mode, scene), the UIController (ui), the
\* VectorFieldVisualizer (viz), and the application object with its
\* RenderEngine and CameraController (app).
appVars == <<view, mode, scene, ui, viz, app>>

\* Nothing of it constructed yet.
NotConstructed == [constructed |-> FALSE]

NoApp ==
    /\ view = NotConstructed
    /\ mode = NotConstructed
    /\ scene = NotConstructed
    /\ ui = NotConstructed
    /\ viz = NotConstructed
    /\ app = NotConstructed

(***************************************************************************)
(* VectorField.evaluateAt                                                   *)
(***************************************************************************)
ReturnNull == [threw |-> FALSE, isNull |-> TRUE, arr |-> <<>>]

ReturnArray(a) == [threw |-> FALSE, isNull |-> FALSE, arr |-> a]

Throws == [threw |-> TRUE, isNull |-> FALSE, arr |-> <<>>]

\* The body of the try block: what it returns, or Throws.
EvaluateAtTry(dimension, func, stored, position, params) ==
    LET mergedParams == Merge(stored, params)
        result == CallFunc(func, position, mergedParams)
    IN  IF result.kind = "throw" THEN Throws
        ELSE IF result.kind # "array" \/ Len(result.arr) < dimension THEN ReturnNull
        ELSE IF \E i \in 1..dimension : ~NumberIsFinite(result.arr[i]) THEN ReturnNull
        ELSE ReturnArray(SubSeq(result.arr, 1, dimension))

evaluateAtNoCatch(dimension, func, stored, position, params) ==
    EvaluateAtTry(dimension, func, stored, position, params)

\* try { ... } catch (error) { return null; }
evaluateAt(dimension, func, stored, position, params) ==
    LET body == EvaluateAtTry(dimension, func, stored, position, params)
    IN  IF body.threw THEN ReturnNull ELSE body

(***************************************************************************)
(* VectorField.addPosition / scaleVector.  A vector is an array, so the     *)
(* keys `for (const key in pos2)` visits are the index strings "0", "1",    *)
(* ...; a position is an object keyed by axis name.                         *)
(***************************************************************************)
IndexKeys == <<"0", "1", "2", "3">>

ArrayKeys(a) == {IndexKeys[i] : i \in 1..Len(a)}

ArrayGet(a, key) == a[CHOOSE i \in 1..Len(a) : IndexKeys[i] = key]

addPositionTwoAxes(pos1, pos2) ==
    [key \in DOMAIN pos1 \cap {"x", "y"} |-> pos1[key]]

addPosition(pos1, pos2) ==
    [key \in DOMAIN pos1 |->
        IF key \in ArrayKeys(pos2)
        THEN NumAdd(pos1[key], ArrayGet(pos2, key))
        ELSE pos1[key]]

scaleVector(vec, scalar) == [i \in 1..Len(vec) |-> NumMul(vec[i], scalar)]

(***************************************************************************)
(* VectorField.integrateRK4: the position a stage is evaluated at, and the  *)
(* weighted average of the four stage vectors.                              *)
(***************************************************************************)
\* pos2, pos3 = current + k*dt/2; pos4 = current + k3*dt; stage 1 uses current.
StagePosition(current, stage, k, dt) ==
    IF stage = 1 THEN current
    ELSE addPosition(current,
                     scaleVector(k[stage - 1],
                                 IF stage = 4 THEN dt ELSE NumDiv(dt, I(2))))

\* k1.map((v, i) => (v + 2*k2[i] + 2*k3[i] + k4[i]) / 6)
StageAverage(k1, k2, k3, k4) ==
    [i \in 1..Len(k1) |->
        NumDiv(NumAdd(NumAdd(NumAdd(k1[i], NumMul(I(2), k2[i])),
                             NumMul(I(2), k3[i])),
                      k4[i]),
               I(6))]

(***************************************************************************)
(* VectorField constructor and getDefaultBounds.                            *)
(***************************************************************************)
getDefaultBounds(dimension) ==
    IF dimension = 2
    THEN [min |-> [x |-> I(-10), y |-> I(-10)],
          max |-> [x |-> I(10), y |-> I(10)]]
    ELSE [min |-> [x |-> I(-5), y |-> I(-5), z |-> I(-5)],
          max |-> [x |-> I(5), y |-> I(5), z |-> I(5)]]

\* Identities of the binding objects: the one the engine owns after
\* construction or after setParameters copied, and the caller's.
EngineObject == "engineParams"

CallerObject == "callerParams"

NewVectorField(dimension, func) ==
    [dimension |-> dimension, func |-> func,
     bounds |-> getDefaultBounds(dimension), params |-> EngineObject]

(***************************************************************************)
(* The field functions the model constructs VectorFields with.  The         *)
(* compiled ones are closures of the parser over k components; a caller     *)
(* may also pass any other function.                                        *)
(***************************************************************************)
ThirdComponent(name) ==
    CASE name = "rotation" -> Const(0)
      [] name = "constant" -> Const(3)
      [] name = "zero" -> Const(0)
      [] OTHER -> Sym("z")

FieldComps(name, k) ==
    LET two == CASE name = "rotation" -> <<Op("unaryMinus", <<Sym("y")>>), Sym("x")>>
                 [] name = "constant" -> <<Const(1), Const(2)>>
                 [] name = "zero" -> <<Const(0), Const(0)>>
                 [] name = "reciprocal" ->
                        <<Op("divide", <<Const(1), Sym("x")>>), Sym("y")>>
                 [] name = "scaled" ->
                        <<Op("multiply", <<Sym("a"), Sym("x")>>), Sym("y")>>
    IN  IF k = 2 THEN two ELSE Append(two, ThirdComponent(name))

FieldNames == {"rotation", "constant", "zero", "reciprocal", "scaled"}

Dimensions == {2, 3}

CompiledFields(k) == {Compiled(FieldComps(name, k)) : name \in FieldNames}

Coord == {I(k) : k \in -MaxCoord..MaxCoord}

Positions2 == [{"x", "y"} -> Coord]

Positions3 == [{"x", "y", "z"} -> Coord]

(***************************************************************************)
(* integrateRK4 as a process: the call, each loop iteration, the return.    *)
(***************************************************************************)
\* Seeds: positions of the field's dimension, and for dimension 2 also the
\* {x, y, z: 0} seeds StreamlineMode passes.
Seeds(dimension) ==
    IF dimension = 2
    THEN Positions2 \cup {Merge(p, [z |-> I(0)]) : p \in Positions2}
    ELSE Positions3

DtValues == {Num(1, 5), I(1)}

RkIdle ==
    [pc |-> "idle", seed |-> EmptyObject, steps |-> 0, dt |-> I(0),
     params |-> EmptyObject, path |-> <<>>, current |-> EmptyObject,
     i |-> 0, stage |-> 1, k |-> <<>>, evals |-> 0]

\* Nothing passed to setParameters yet.
NothingPassed == [done |-> FALSE, bindings |-> EmptyObject]

\* The caller's record of its last call on the VectorField (op, arguments,
\* what was returned) and of the bindings it last passed to setParameters.
CallRecord(passed) ==
    [op |-> "none", position |-> EmptyObject, params |-> EmptyObject,
     merged |-> EmptyObject, result |-> [threw |-> FALSE, isNull |-> TRUE, arr |-> <<>>],
     resolution |-> 0, samples |-> <<>>, passed |-> passed]

NoCall == CallRecord(NothingPassed)

PsIdle ==
    [pc |-> "idle", expression |-> <<>>, dimension |-> 2,
     result |-> [threw |-> FALSE]]

InitRK4 ==
    /\ \E dimension \in Dimensions :
         \E func \in CompiledFields(dimension) :
            vf = NewVectorField(dimension, func)
    /\ heap = [o \in {EngineObject} |-> EmptyObject]
    /\ ret = NoCall
    /\ rk = RkIdle
    /\ ps = PsIdle
    /\ NoApp

IntegrateCall(startPos, steps, dt) ==
    /\ rk.pc = "idle"
    /\ rk' = [pc |-> "loop", seed |-> startPos, steps |-> steps, dt |-> dt,
              params |-> EmptyObject, path |-> <<startPos>>,
              current |-> startPos, i |-> 0, stage |-> 1, k |-> <<>>,
              evals |-> 0]
    /\ UNCHANGED <<vf, heap, ret, ps, appVars>>

\* The loop condition holds: the next stage of the iteration is evaluated.
\* An Invalid stage leaves the loop (break) and the path is returned; a valid
\* fourth stage commits the step.
\* if (!k) break;  -- the loop is left and the path returned as it is.
OnInvalidStageContinue(r) ==
    [r EXCEPT !.i = r.i + 1, !.stage = 1, !.k = <<>>, !.evals = r.evals + 1]

OnInvalidStageRetry(r) == [r EXCEPT !.evals = r.evals + 1]

OnInvalidStage(r) == [r EXCEPT !.pc = "done", !.evals = r.evals + 1]

IntegrateStage ==
    /\ rk.pc = "loop"
    /\ rk.i < rk.steps
    /\ LET kn == evaluateAt(vf.dimension, vf.func, heap[vf.params],
                            StagePosition(rk.current, rk.stage, rk.k, rk.dt),
                            rk.params)
           avg == StageAverage(rk.k[1], rk.k[2], rk.k[3], kn.arr)
           next == addPosition(rk.current, scaleVector(avg, rk.dt))
       IN  rk' = IF kn.isNull
                 THEN OnInvalidStage(rk)
                 ELSE IF rk.stage < 4
                 THEN [rk EXCEPT !.stage = rk.stage + 1,
                                 !.k = Append(rk.k, kn.arr),
                                 !.evals = rk.evals + 1]
                 ELSE [rk EXCEPT !.current = next,
                                 !.path = Append(rk.path, next),
                                 !.i = rk.i + 1,
                                 !.stage = 1,
                                 !.k = <<>>,
                                 !.evals = rk.evals + 1]
    /\ UNCHANGED <<vf, heap, ret, ps, appVars>>

\* The loop condition i < steps fails: return path.
IntegrateReturn ==
    /\ rk.pc = "loop"
    /\ ~(rk.i < rk.steps)
    /\ rk' = [rk EXCEPT !.pc = "done"]
    /\ UNCHANGED <<vf, heap, ret, ps, appVars>>

\* The caller has taken the returned path; the activation is gone.
IntegrateDone ==
    /\ rk.pc = "done"
    /\ rk' = RkIdle
    /\ UNCHANGED <<vf, heap, ret, ps, appVars>>

NextRK4 ==
    \/ \E startPos \in Seeds(vf.dimension), steps \in 0..MaxSteps, dt \in DtValues :
          IntegrateCall(startPos, steps, dt)
    \/ IntegrateStage
    \/ IntegrateReturn
    \/ IntegrateDone

SpecRK4 == InitRK4 /\ [][NextRK4]_vars


(***************************************************************************)
(* VectorField.setParameters: this.params = { ...params } stores a new      *)
(* object holding a copy of the caller's bindings.  The object this.params  *)
(* held before is referenced by nothing else, so its identity is reused.    *)
(***************************************************************************)
setParametersAlias(h, given) == [ref |-> given, heap |-> h]

setParameters(h, given) ==
    [ref |-> EngineObject, heap |-> [h EXCEPT ![EngineObject] = h[given]]]

(***************************************************************************)
(* VectorField.sampleGrid.  The nested loops visit the grid points in the   *)
(* order of n = (i*resolution + j) [* resolution + k].                      *)
(***************************************************************************)
RECURSIVE Power(_, _)
Power(b, e) == IF e = 0 THEN 1 ELSE b * Power(b, e - 1)

\* (bounds.max.a - bounds.min.a) / (resolution - 1)
GridStep(bounds, axis, resolution) ==
    NumDiv(NumSub(bounds.max[axis], bounds.min[axis]), I(resolution - 1))

\* bounds.min.a + index * step
GridCoord(bounds, axis, resolution, index) ==
    NumAdd(bounds.min[axis], NumMul(I(index), GridStep(bounds, axis, resolution)))

GridPoint(bounds, dimension, resolution, n) ==
    IF dimension = 2
    THEN [x |-> GridCoord(bounds, "x", resolution, n \div resolution),
          y |-> GridCoord(bounds, "y", resolution, n % resolution)]
    ELSE [x |-> GridCoord(bounds, "x", resolution, n \div (resolution * resolution)),
          y |-> GridCoord(bounds, "y", resolution, (n \div resolution) % resolution),
          z |-> GridCoord(bounds, "z", resolution, n % resolution)]

\* if (vector) samples.push({position, vector})
PushAlways(samples, position, vector) ==
    Append(samples, [position |-> position, vector |-> vector])

PushIfValid(samples, position, vector) ==
    IF vector.isNull THEN samples
    ELSE Append(samples, [position |-> position, vector |-> vector])

RECURSIVE SampleLoop(_, _, _, _, _, _)
SampleLoop(this, stored, resolution, params, n, samples) ==
    IF n >= Power(resolution, this.dimension) THEN samples
    ELSE SampleLoop(this, stored, resolution, params, n + 1,
                    PushIfValid(samples,
                                GridPoint(this.bounds, this.dimension, resolution, n),
                                evaluateAt(this.dimension, this.func, stored,
                                           GridPoint(this.bounds, this.dimension,
                                                     resolution, n),
                                           params)))

sampleGrid(this, stored, resolution, params) ==
    SampleLoop(this, stored, resolution, params, 0, <<>>)

(***************************************************************************)
(* A VectorField in use: the caller evaluates it, samples it, and passes    *)
(* parameter bindings, which it may go on writing to afterwards.            *)
(***************************************************************************)
\* Closures of the parser with as many components as the dimension, one
\* with the wrong number, and functions that are not closures of the parser.
FieldFunctions(dimension) ==
    {Compiled(FieldComps(name, dimension)) : name \in {"rotation", "reciprocal", "scaled"}}
        \cup {Compiled(FieldComps("constant", 5 - dimension))}
        \cup {Foreign(k) : k \in {"throws", "returnsNull", "returnsNumber", "returnsString"}}

ParamValues == {I(1), I(2)}

Bindings == {EmptyObject} \cup {[a |-> v] : v \in ParamValues}
                \cup {[a |-> I(1), k |-> I(2)]}

\* Positions with the axes of either dimension, and one that lacks y.
EvalPositions ==
    Positions2 \cup {Merge(p, [z |-> I(1)]) : p \in Positions2} \cup {[x |-> I(1)]}

EvalParams == {EmptyObject, [a |-> I(2)]}

InitField ==
    /\ \E dimension \in Dimensions :
         \E func \in FieldFunctions(dimension) :
            vf = NewVectorField(dimension, func)
    /\ heap = [o \in {EngineObject, CallerObject} |-> EmptyObject]
    /\ ret = NoCall
    /\ rk = RkIdle
    /\ ps = PsIdle
    /\ NoApp

\* The caller writes to its own bindings object.
CallerWrites(b) ==
    /\ ret.op = "none"
    /\ heap' = [heap EXCEPT ![CallerObject] = b]
    /\ UNCHANGED <<vf, ret, rk, ps, appVars>>

\* vectorField.setParameters(B), B the caller's object.
SetParameters ==
    /\ ret.op = "none"
    /\ LET after == setParameters(heap, CallerObject)
       IN  /\ vf' = [vf EXCEPT !.params = after.ref]
           /\ heap' = after.heap
    /\ ret' = [CallRecord([done |-> TRUE, bindings |-> heap[CallerObject]])
                  EXCEPT !.op = "setParameters"]
    /\ UNCHANGED <<rk, ps, appVars>>

EvaluateAt(position, params) ==
    /\ ret.op = "none"
    /\ ret' = [CallRecord(ret.passed) EXCEPT
                  !.op = "evaluateAt",
                  !.position = position,
                  !.params = params,
                  !.merged = Merge(heap[vf.params], params),
                  !.result = evaluateAt(vf.dimension, vf.func, heap[vf.params],
                                        position, params)]
    /\ UNCHANGED <<vf, heap, rk, ps, appVars>>

SampleGrid(resolution) ==
    /\ ret.op = "none"
    /\ ret' = [CallRecord(ret.passed) EXCEPT
                  !.op = "sampleGrid",
                  !.resolution = resolution,
                  !.samples = sampleGrid(vf, heap[vf.params], resolution, EmptyObject)]
    /\ UNCHANGED <<vf, heap, rk, ps, appVars>>

\* The caller is done with what the call returned and goes on.
Continue ==
    /\ ret.op # "none"
    /\ ret' = CallRecord(ret.passed)
    /\ UNCHANGED <<vf, heap, rk, ps, appVars>>

NextField ==
    \/ \E b \in Bindings : CallerWrites(b)
    \/ SetParameters
    \/ \E position \in EvalPositions, params \in EvalParams : EvaluateAt(position, params)
    \/ \E resolution \in 0..MaxResolution : SampleGrid(resolution)
    \/ Continue

SpecField == InitField /\ [][NextField]_vars

(***************************************************************************)
(* FunctionParser.  A string is a sequence of one-character strings.        *)
(***************************************************************************)
MaxComponents == 3

RECURSIVE TrimStart(_)
TrimStart(str) ==
    IF Len(str) > 0 /\ Head(str) = " " THEN TrimStart(Tail(str)) ELSE str

RECURSIVE TrimEnd(_)
TrimEnd(str) ==
    IF Len(str) > 0 /\ str[Len(str)] = " "
    THEN TrimEnd(SubSeq(str, 1, Len(str) - 1))
    ELSE str

\* String.prototype.trim
Trim(str) == TrimEnd(TrimStart(str))

StartsWith(str, c) == Len(str) > 0 /\ str[1] = c

EndsWith(str, c) == Len(str) > 0 /\ str[Len(str)] = c

\* expr.slice(1, -1)
SliceInner(str) == SubSeq(str, 2, Len(str) - 1)

\* The loop of splitComponents from character i on, and the final
\* `if (current) components.push(current)`.
RECURSIVE SplitLoop(_, _, _, _, _)
SplitLoop(content, i, components, current, depth) ==
    IF i > Len(content)
    THEN (IF current # <<>> THEN Append(components, current) ELSE components)
    ELSE LET char == content[i]
         IN  IF char \in {"(", "[", "{"}
             THEN SplitLoop(content, i + 1, components, Append(current, char), depth + 1)
             ELSE IF char \in {")", "]", "}"}
             THEN SplitLoop(content, i + 1, components, Append(current, char), depth - 1)
             ELSE IF char = "," /\ depth = 0
             THEN SplitLoop(content, i + 1, Append(components, current), <<>>, depth)
             ELSE SplitLoop(content, i + 1, components, Append(current, char), depth)

splitComponents(content) == SplitLoop(content, 1, <<>>, <<>>, 0)

\* The whitelist the constructor stores.
allowedFunctions ==
    {"sin", "cos", "tan", "asin", "acos", "atan", "atan2",
     "sinh", "cosh", "tanh",
     "sqrt", "cbrt", "abs", "exp", "log", "log10", "log2",
     "floor", "ceil", "round", "sign",
     "min", "max", "pow", "hypot",
     "random"}

(***************************************************************************)
(* math.parse on the component texts the model feeds the parser: the tree   *)
(* Math.js builds, or a SyntaxError.                                        *)
(***************************************************************************)
ComponentTexts ==
    { <<"x">>,
      <<"-", "y">>,
      <<"z">>,
      <<"x", "+", "w">>,
      <<"m", "a", "x", "(", "x", ",", "y", ")">>,
      <<"s", "q", "u", "a", "r", "e", "(", "x", ")">>,
      <<"w", ">", "0", "?", "x", ":", "y">>,
      <<"x", "+">>,
      <<>> }

Parsed(node) == [threw |-> FALSE, node |-> node]

SyntaxError == [threw |-> TRUE, node |-> UndefinedConst]

MathParse(text) ==
    CASE text = <<"x">> -> Parsed(Sym("x"))
      [] text = <<"-", "y">> -> Parsed(Op("unaryMinus", <<Sym("y")>>))
      [] text = <<"z">> -> Parsed(Sym("z"))
      [] text = <<"x", "+", "w">> -> Parsed(Op("add", <<Sym("x"), Sym("w")>>))
      [] text = <<"m", "a", "x", "(", "x", ",", "y", ")">> ->
            Parsed(Fn("max", <<Sym("x"), Sym("y")>>))
      [] text = <<"s", "q", "u", "a", "r", "e", "(", "x", ")">> ->
            Parsed(Fn("square", <<Sym("x")>>))
      [] text = <<"w", ">", "0", "?", "x", ":", "y">> ->
            Parsed(Cond(Op("larger", <<Sym("w"), Const(0)>>), Sym("x"), Sym("y")))
      [] text = <<>> -> Parsed(UndefinedConst)
      [] text = <<"y">> -> Parsed(Sym("y"))
      [] text = <<"e">> -> Parsed(Sym("e"))
      [] text = <<"p", "i", "*", "x">> ->
            Parsed(Op("multiply", <<Sym("pi"), Sym("x")>>))
      [] OTHER -> SyntaxError

(***************************************************************************)
(* FunctionParser.extractVariables: the names in the order the traversal    *)
(* first meets them.                                                        *)
(***************************************************************************)
\* Set.add on a Set kept in insertion order.
SetAdd(seq, name) ==
    IF \E i \in 1..Len(seq) : seq[i] = name THEN seq ELSE Append(seq, name)

RECURSIVE SetAddAll(_, _)
SetAddAll(seq, names) ==
    IF names = <<>> THEN seq ELSE SetAddAll(SetAdd(seq, Head(names)), Tail(names))

RECURSIVE TraverseAll(_, _, _)
RECURSIVE Traverse(_, _)
TraverseAll(nodes, i, variables) ==
    IF i > Len(nodes) THEN variables
    ELSE TraverseAll(nodes, i + 1, Traverse(nodes[i], variables))

Traverse(n, variables) ==
    CASE n.type = "SymbolNode" -> SetAdd(variables, n.name)
      [] n.type = "OperatorNode" -> TraverseAll(n.args, 1, variables)
      [] n.type = "ParenthesisNode" -> Traverse(n.args[1], variables)
      [] n.type = "FunctionNode" -> TraverseAll(n.args, 1, variables)
      [] n.type \in {"UnaryMinusNode", "UnaryPlusNode"} -> Traverse(n.args[1], variables)
      [] OTHER -> variables

extractVariables(node) == Traverse(node, <<>>)

(***************************************************************************)
(* FunctionParser.parse.  A result is {func, error, variables}; the error   *)
(* message is kept as the data it is formatted from.                        *)
(***************************************************************************)
NullFunc == [kind |-> "null", comps |-> <<>>]

ErrorOf(kind, index, expected, got, names) ==
    [kind |-> kind, index |-> index, expected |-> expected, got |-> got,
     names |-> names]

\* error: null
NoError == ErrorOf("none", 0, 0, 0, <<>>)

Result(func, error, variables) ==
    [threw |-> FALSE, func |-> func, error |-> error, variables |-> variables]

ParseThrows ==
    [threw |-> TRUE, func |-> NullFunc, error |-> NoError, variables |-> <<>>]

validVars(dimension) == IF dimension = 2 THEN <<"x", "y">> ELSE <<"x", "y", "z">>

Includes(seq, v) == \E i \in 1..Len(seq) : seq[i] = v

\* Array.prototype.sort on names: the order of their UTF-16 code units.
NameOrder == <<"a", "e", "k", "pi", "w", "x", "y", "z">>

NameRank(name) == CHOOSE i \in 1..Len(NameOrder) : NameOrder[i] = name

RECURSIVE SortNames(_)
SortNames(seq) ==
    IF seq = <<>> THEN <<>>
    ELSE LET least == CHOOSE i \in 1..Len(seq) :
                         \A j \in 1..Len(seq) : NameRank(seq[i]) <= NameRank(seq[j])
         IN  <<seq[least]>> \o
             SortNames(SubSeq(seq, 1, least - 1) \o SubSeq(seq, least + 1, Len(seq)))

\* The loop over the components (i counts from 1 here, from 0 in the code):
\* stops at the first component math.parse throws on.
RECURSIVE CompileLoop(_, _, _, _)
CompileLoop(components, i, compiled, variables) ==
    IF i > Len(components)
    THEN [thrownAt |-> 0, compiled |-> compiled, variables |-> variables]
    ELSE LET parsed == MathParse(Trim(components[i]))
         IN  IF parsed.threw
             THEN [thrownAt |-> i, compiled |-> compiled, variables |-> variables]
             ELSE CompileLoop(components, i + 1, Append(compiled, parsed.node),
                              SetAddAll(variables, extractVariables(parsed.node)))

\* The inner catch, the variable validation and the successful return.
AfterCompileKeepsFunc(c, dimension) ==
    LET invalidVars == SelectSeq(c.variables, LAMBDA v : ~Includes(validVars(dimension), v))
    IN  IF c.thrownAt > 0
        THEN Result(NullFunc, ErrorOf("component", c.thrownAt - 1, 0, 0, <<>>), c.variables)
        ELSE IF Len(invalidVars) > 0
        THEN Result(Compiled(c.compiled),
                    ErrorOf("invalidVariables", 0, 0, 0, invalidVars), c.variables)
        ELSE Result(Compiled(c.compiled), NoError, SortNames(c.variables))

AfterCompileAnyVariable(c, dimension) ==
    IF c.thrownAt > 0
    THEN Result(NullFunc, ErrorOf("component", c.thrownAt - 1, 0, 0, <<>>), c.variables)
    ELSE Result(Compiled(c.compiled), NoError, SortNames(c.variables))

AfterCompile(c, dimension) ==
    LET invalidVars == SelectSeq(c.variables, LAMBDA v : ~Includes(validVars(dimension), v))
    IN  IF c.thrownAt > 0
        THEN Result(NullFunc, ErrorOf("component", c.thrownAt - 1, 0, 0, <<>>), c.variables)
        ELSE IF Len(invalidVars) > 0
        THEN Result(NullFunc, ErrorOf("invalidVariables", 0, 0, 0, invalidVars), c.variables)
        ELSE Result(Compiled(c.compiled), NoError, SortNames(c.variables))

\* The count check on what splitComponents returned.
CheckCount(components, dimension) ==
    IF Len(components) # dimension
    THEN Result(NullFunc, ErrorOf("count", 0, dimension, Len(components), <<>>), <<>>)
    ELSE AfterCompile(CompileLoop(components, 1, <<>>, <<>>), dimension)

\* The outer try block.
ParseTry(expr, dimension) == CheckCount(splitComponents(SliceInner(expr)), dimension)

\* The outer catch.
ParseCatch(body) ==
    IF body.threw THEN Result(NullFunc, ErrorOf("parseError", 0, 0, 0, <<>>), <<>>)
    ELSE body

NotArrayResult(expr) == Result(NullFunc, ErrorOf("notArray", 0, 0, 0, <<>>), <<>>)

parse(expression, dimension) ==
    IF ~StartsWith(Trim(expression), "[") \/ ~EndsWith(Trim(expression), "]")
    THEN NotArrayResult(expression)
    ELSE ParseCatch(ParseTry(Trim(expression), dimension))

(***************************************************************************)
(* The parser as a process: a call with an expression and a dimension,      *)
(* then its return.                                                         *)
(***************************************************************************)
RECURSIVE Join(_)
Join(texts) ==
    IF texts = <<>> THEN <<>>
    ELSE IF Len(texts) = 1 THEN texts[1]
    ELSE texts[1] \o <<",">> \o Join(Tail(texts))

\* What is put around the comma-joined components: brackets, surrounding
\* blanks, a missing bracket, a trailing comma.
Shapes ==
    { <<<<"[">>, <<"]">>>>,
      <<<<" ", "[">>, <<"]", " ">>>>,
      <<<<>>, <<"]">>>>,
      <<<<"[">>, <<>>>>,
      <<<<"[">>, <<",", "]">>>>,
      <<<<"[">>, <<",", " ", "]">>>> }

ComponentLists == UNION {[1..n -> ComponentTexts] : n \in 0..MaxComponents}

ExpressionInputs == {sh[1] \o Join(cs) \o sh[2] : sh \in Shapes, cs \in ComponentLists}

NoResult == Result(NullFunc, NoError, <<>>)

InitParse ==
    /\ vf = NewVectorField(2, Compiled(FieldComps("rotation", 2)))
    /\ heap = [o \in {EngineObject} |-> EmptyObject]
    /\ ret = NoCall
    /\ rk = RkIdle
    /\ \E expression \in ExpressionInputs, dimension \in Dimensions :
          ps = [pc |-> "called", expression |-> expression,
                dimension |-> dimension, result |-> NoResult]
    /\ NoApp

Parse ==
    /\ ps.pc = "called"
    /\ ps' = [ps EXCEPT !.pc = "returned",
                        !.result = parse(ps.expression, ps.dimension)]
    /\ UNCHANGED <<vf, heap, ret, rk, appVars>>

NextParse == Parse

SpecParse == InitParse /\ [][NextParse]_vars

(***************************************************************************)
(* Claims about integrateRK4 (specification SpecRK4).                       *)
(***************************************************************************)
AxisNames == <<"x", "y", "z">>

\* pos + vec * scalar on every axis the vector has a component for.
AdvanceAxes(pos, vec, scalar) ==
    [key \in DOMAIN pos |->
        IF \E i \in 1..Len(vec) : AxisNames[i] = key
        THEN NumAdd(pos[key],
                    NumMul(vec[CHOOSE i \in 1..Len(vec) : AxisNames[i] = key], scalar))
        ELSE pos[key]]

FieldAt(pos) ==
    evaluateAt(vf.dimension, vf.func, heap[vf.params], pos, rk.params).arr

\* The classical Runge-Kutta step from pos.
RK4Reference(pos, dt) ==
    LET half == NumDiv(dt, I(2))
        k1 == FieldAt(pos)
        k2 == FieldAt(AdvanceAxes(pos, k1, half))
        k3 == FieldAt(AdvanceAxes(pos, k2, half))
        k4 == FieldAt(AdvanceAxes(pos, k3, dt))
    IN  AdvanceAxes(pos, StageAverage(k1, k2, k3, k4), dt)

ValidEverywhere(func) ==
    \E name \in {"rotation", "constant", "zero"}, k \in Dimensions :
        func = Compiled(FieldComps(name, k))

\* C1: over a field that is valid everywhere every committed step moves each
\* axis the field has a component for by dt*(k1+2*k2+2*k3+k4)/6, the stages
\* taken at the offset positions; in particular path[1] differs from the seed
\* whenever the field is nonzero at the seed.
C1_CommittedStepIsRK4 ==
    ValidEverywhere(vf.func) =>
        /\ \A j \in 1..(Len(rk.path) - 1) :
              rk.path[j + 1] = RK4Reference(rk.path[j], rk.dt)
        /\ (Len(rk.path) >= 2 /\ \E i \in 1..vf.dimension : FieldAt(rk.seed)[i].n # 0)
              => rk.path[2] # rk.seed

\* The stage (1..4) of the iteration starting at pos whose evaluation is
\* Invalid first, 0 when all four are valid.
RECURSIVE FirstInvalidStage(_, _, _)
FirstInvalidStage(pos, s, k) ==
    IF s > 4 THEN 0
    ELSE LET v == evaluateAt(vf.dimension, vf.func, heap[vf.params],
                             StagePosition(pos, s, k, rk.dt), rk.params)
         IN  IF v.isNull THEN s ELSE FirstInvalidStage(pos, s + 1, Append(k, v.arr))

\* C2: the returned path starts with the seed and holds one more point per
\* step committed before the first Invalid stage evaluation; the failed step
\* is not appended, nothing is evaluated after it, and the length is steps+1
\* exactly when no stage evaluation was Invalid.
C2_PathIsSeedPlusCommittedSteps ==
    rk.pc = "done" =>
        LET n == Len(rk.path) - 1
            f == IF n < rk.steps /\ n >= 0
                 THEN FirstInvalidStage(rk.path[n + 1], 1, <<>>) ELSE 0
        IN  /\ n >= 0 /\ n <= rk.steps
            /\ rk.path[1] = rk.seed
            /\ \A j \in 1..n : FirstInvalidStage(rk.path[j], 1, <<>>) = 0
            /\ (n < rk.steps => f # 0)
            /\ rk.evals = 4 * n + f
            /\ (n = rk.steps <=> rk.evals = 4 * rk.steps)

\* An integration that stopped at the seed although steps were requested.
C2_Witness ==
    /\ rk.pc = "done"
    /\ rk.steps >= 2
    /\ Len(rk.path) = 1
    /\ rk.evals = 1


(***************************************************************************)
(* Claims about FunctionParser.parse (specification SpecParse).             *)
(***************************************************************************)
Returned == ps.pc = "returned"

Bracketed == StartsWith(Trim(ps.expression), "[") /\ EndsWith(Trim(ps.expression), "]")

Content == SliceInner(Trim(ps.expression))

\* The trees of the components the parser compiles (those Math.js parses).
ComponentTrees ==
    LET components == splitComponents(Content)
    IN  {MathParse(Trim(components[i])).node :
            i \in {j \in 1..Len(components) : ~MathParse(Trim(components[j])).threw}}

\* Every symbol of a tree, whatever node it sits under.
RECURSIVE AllSymbols(_)
AllSymbols(n) ==
    IF n.type = "SymbolNode" THEN {n.name}
    ELSE UNION {AllSymbols(n.args[i]) : i \in 1..Len(n.args)}

\* Every function name a tree calls.
RECURSIVE CalledFunctions(_)
CalledFunctions(n) ==
    (IF n.type = "FunctionNode" THEN {n.name} ELSE {})
        \cup UNION {CalledFunctions(n.args[i]) : i \in 1..Len(n.args)}

Range(seq) == {seq[i] : i \in 1..Len(seq)}

ForeignSymbols ==
    (UNION {AllSymbols(t) : t \in ComponentTrees}) \ Range(validVars(ps.dimension))

CountMatches == Len(splitComponents(Content)) = ps.dimension

\* C3: parse succeeds only if no symbol other than the coordinates of the
\* dimension is referenced anywhere in any component, under whatever kind of
\* node; an expression that references one gets an invalid-variable error
\* naming every such symbol.
C3_OnlyCoordinateSymbols ==
    Returned =>
        /\ (ps.result.error.kind = "none" => ForeignSymbols = {})
        /\ (Bracketed /\ CountMatches /\ ForeignSymbols # {}
              /\ ps.result.error.kind # "component")
              => /\ ps.result.error.kind = "invalidVariables"
                 /\ ForeignSymbols \subseteq Range(ps.result.error.names)

\* C4: an expression in which some component calls a function that is not in
\* allowedFunctions gets a component error and no evaluator.
C4_WhitelistEnforced ==
    (Returned /\ Bracketed /\ CountMatches
       /\ \E t \in ComponentTrees : ~(CalledFunctions(t) \subseteq allowedFunctions))
        => /\ ps.result.func = NullFunc
           /\ ps.result.error.kind = "component"

\* The number of pieces the content falls into when it is cut at every comma
\* outside (), [] and {}.
RECURSIVE TopLevelCommas(_, _, _)
TopLevelCommas(content, i, depth) ==
    IF i > Len(content) THEN 0
    ELSE IF content[i] \in {"(", "[", "{"} THEN TopLevelCommas(content, i + 1, depth + 1)
    ELSE IF content[i] \in {")", "]", "}"} THEN TopLevelCommas(content, i + 1, depth - 1)
    ELSE (IF content[i] = "," /\ depth = 0 THEN 1 ELSE 0)
            + TopLevelCommas(content, i + 1, depth)

PieceCount == TopLevelCommas(Content, 1, 0) + 1

\* C5: for a bracketed expression parse returns the component-count error
\* (expected dimension, got actual) exactly when the number of pieces between
\* top-level commas differs from dimension, an empty piece counting like any
\* other.
C5_CountErrorIffPiecesDiffer ==
    (Returned /\ Bracketed) =>
        /\ (ps.result.error.kind = "count" <=> PieceCount # ps.dimension)
        /\ (ps.result.error.kind = "count" => ps.result.error.expected = ps.dimension)

\* C6: parse returns normally, with func non-null exactly when error is null.
C6_FuncXorError ==
    Returned =>
        /\ ~ps.result.threw
        /\ (ps.result.func # NullFunc <=> ps.result.error = NoError)

\* parse has returned an invalid-variable error for a bracketed expression.
C6_Witness ==
    /\ Returned
    /\ Bracketed
    /\ ps.result.error.kind = "invalidVariables"
    /\ ps.result.func = NullFunc


(***************************************************************************)
(* Claims about evaluateAt, sampleGrid and setParameters (specification     *)
(* SpecField).                                                              *)
(***************************************************************************)
\* What the field function gave the evaluateAt call the caller last made.
LastRaw == CallFunc(vf.func, ret.position, Merge(heap[vf.params], ret.params))

LastRawUsable ==
    /\ LastRaw.kind = "array"
    /\ Len(LastRaw.arr) >= vf.dimension
    /\ \A i \in 1..vf.dimension : LastRaw.arr[i].d > 0

\* C7: evaluateAt never throws; it returns null when the evaluator throws,
\* returns a non-array, returns an array shorter than dimension or with a
\* non-finite entry among the first dimension ones, and otherwise exactly
\* the first dimension entries of what the evaluator returned.
C7_EvaluateAtInvalidOrTruncated ==
    ret.op = "evaluateAt" =>
        /\ ~ret.result.threw
        /\ (~LastRawUsable => ret.result.isNull)
        /\ (LastRawUsable =>
               /\ ~ret.result.isNull
               /\ ret.result.arr = [i \in 1..vf.dimension |-> LastRaw.arr[i]])

\* evaluateAt returned the first entries of a longer array.
C7_Witness ==
    /\ ret.op = "evaluateAt"
    /\ ~ret.result.isNull
    /\ Len(LastRaw.arr) > vf.dimension
    /\ Len(ret.result.arr) = vf.dimension

GridSize == Power(ret.resolution, vf.dimension)

GridValid(n) ==
    ~evaluateAt(vf.dimension, vf.func, heap[vf.params],
                GridPoint(vf.bounds, vf.dimension, ret.resolution, n),
                EmptyObject).isNull

\* The grid points in loop order (point n is entry n + 1), and those of
\* them that are not Invalid.
GridPoints ==
    [n \in 1..GridSize |-> GridPoint(vf.bounds, vf.dimension, ret.resolution, n - 1)]

GridValidity == [n \in 1..GridSize |-> GridValid(n - 1)]

RECURSIVE KeepValid(_, _, _)
KeepValid(points, validity, n) ==
    IF n = 0 THEN <<>>
    ELSE LET before == KeepValid(points, validity, n - 1)
         IN  IF validity[n] THEN Append(before, points[n]) ELSE before

\* C8: sampleGrid returns one entry per grid point at which evaluateAt is not
\* Invalid, in grid order: never more than resolution^dimension entries,
\* none with a null vector, and the points after an Invalid one are sampled.
C8_SamplesAreTheValidGridPoints ==
    ret.op = "sampleGrid" =>
        /\ Len(ret.samples) <= GridSize
        /\ [s \in 1..Len(ret.samples) |-> ret.samples[s].position]
              = KeepValid(GridPoints, GridValidity, GridSize)
        /\ \A s \in 1..Len(ret.samples) :
              /\ ~ret.samples[s].vector.isNull
              /\ Len(ret.samples[s].vector.arr) = vf.dimension

\* A grid with an Invalid point in its middle: the points after it are in
\* the result.
C8_Witness ==
    /\ ret.op = "sampleGrid"
    /\ Len(ret.samples) > 0
    /\ Len(ret.samples) < GridSize
    /\ \E n \in 1..GridSize : \E m \in 1..(n - 1) : GridValidity[n] /\ ~GridValidity[m]

AxesOf(dimension) == IF dimension = 2 THEN {"x", "y"} ELSE {"x", "y", "z"}

\* The index of grid point n along an axis, as the loops nest.
AxisIndex(axis, n) ==
    IF vf.dimension = 2
    THEN (IF axis = "x" THEN n \div ret.resolution ELSE n % ret.resolution)
    ELSE (IF axis = "x" THEN n \div (ret.resolution * ret.resolution)
          ELSE IF axis = "y" THEN (n \div ret.resolution) % ret.resolution
          ELSE n % ret.resolution)

\* min + index * (max - min) / (resolution - 1); the single point of a grid
\* of resolution 1 is taken at min.
EvenlySpaced(axis, index) ==
    IF ret.resolution = 1 THEN vf.bounds.min[axis]
    ELSE NumAdd(vf.bounds.min[axis],
                NumDiv(NumMul(I(index), NumSub(vf.bounds.max[axis], vf.bounds.min[axis])),
                       I(ret.resolution - 1)))

\* C9: for a field valid at every point of the domain and every resolution
\* >= 1, sampleGrid returns resolution^dimension samples, evenly spaced on
\* every axis from bounds.min to bounds.max.
C9_FullEvenGrid ==
    (ret.op = "sampleGrid" /\ ret.resolution >= 1
       /\ vf.func = Compiled(FieldComps("rotation", vf.dimension)))
        => /\ Len(ret.samples) = GridSize
           /\ \A s \in 1..Len(ret.samples) : \A axis \in AxesOf(vf.dimension) :
                 ret.samples[s].position[axis] = EvenlySpaced(axis, AxisIndex(axis, s - 1))

\* C10: once setParameters(B) was called, the bindings the engine stores,
\* and merges into every later evaluateAt, are the pairs B had at the call,
\* whatever was stored before and whatever the caller writes to B afterwards.
C10_StoredBindingsAreTheCallSnapshot ==
    ret.passed.done =>
        /\ heap[vf.params] = ret.passed.bindings
        /\ (ret.op = "evaluateAt" => ret.merged = Merge(ret.passed.bindings, ret.params))

\* An evaluateAt made after the caller added a binding to the object it
\* had passed to setParameters.
C10_Witness ==
    /\ ret.passed.done
    /\ ret.op = "evaluateAt"
    /\ heap[CallerObject] # ret.passed.bindings
    /\ "a" \in DOMAIN heap[CallerObject]
    /\ "a" \notin DOMAIN ret.passed.bindings


(***************************************************************************)
(* The bounds of a VectorField.  The constructor takes the caller's box or  *)
(* the default one; getBounds hands out the object in this.bounds, and the  *)
(* caller may write to what it was handed.  The box in this.bounds is the   *)
(* object BoundsObject; vf.bounds is its value.                             *)
(***************************************************************************)
NullBounds == [isNull |-> TRUE]

\* constructor(dimension, func, bounds = null):
\*     this.bounds = bounds || this.getDefaultBounds()
NewVectorFieldIn(dimension, func, bounds) ==
    [dimension |-> dimension, func |-> func,
     bounds |-> IF bounds = NullBounds THEN getDefaultBounds(dimension) ELSE bounds,
     params |-> EngineObject]

BoundsObject == "engineBounds"

\* return this.bounds
getBounds(this) == [ref |-> BoundsObject, box |-> this.bounds]

Box(dimension, lo, hi) ==
    IF dimension = 2
    THEN [min |-> [x |-> lo, y |-> lo], max |-> [x |-> hi, y |-> hi]]
    ELSE [min |-> [x |-> lo, y |-> lo, z |-> lo], max |-> [x |-> hi, y |-> hi, z |-> hi]]

\* What a caller passes as bounds: nothing, a box, a box with min above max.
SuppliedBounds(dimension) ==
    {NullBounds, Box(dimension, I(0), I(MaxCoord)), Box(dimension, I(MaxCoord), I(0))}

WrittenValues == {I(0), I(20)}

Sides == {"min", "max"}

Axes(dimension) == IF dimension = 2 THEN {"x", "y"} ELSE {"x", "y", "z"}

InitBounds ==
    /\ \E dimension \in Dimensions : \E supplied \in SuppliedBounds(dimension) :
          /\ vf = NewVectorFieldIn(dimension, Compiled(FieldComps("constant", dimension)),
                                   supplied)
          /\ view = [constructed |-> TRUE, supplied |-> supplied,
                     original |-> vf.bounds, ref |-> "none", box |-> vf.bounds,
                     written |-> FALSE]
    /\ heap = [o \in {EngineObject} |-> EmptyObject]
    /\ ret = NoCall
    /\ rk = RkIdle
    /\ ps = PsIdle
    /\ mode = NotConstructed
    /\ scene = NotConstructed
    /\ ui = NotConstructed
    /\ viz = NotConstructed
    /\ app = NotConstructed

\* const b = vectorField.getBounds()
GetBounds ==
    /\ ret.op = "none"
    /\ LET got == getBounds(vf)
       IN  view' = [view EXCEPT !.ref = got.ref, !.box = got.box]
    /\ ret' = [CallRecord(ret.passed) EXCEPT !.op = "getBounds"]
    /\ UNCHANGED <<vf, heap, rk, ps, mode, scene, ui, viz, app>>

\* b[side][axis] = value, b the object the caller got from getBounds: the
\* write lands in the engine's box when b is that object.
WriteBounds(side, axis, value) ==
    /\ ret.op = "none"
    /\ view.ref # "none"
    /\ view' = [view EXCEPT !.box[side][axis] = value, !.written = TRUE]
    /\ vf' = IF view.ref = BoundsObject
             THEN [vf EXCEPT !.bounds[side][axis] = value]
             ELSE vf
    /\ UNCHANGED <<heap, ret, rk, ps, mode, scene, ui, viz, app>>

NextBounds ==
    \/ GetBounds
    \/ \E side \in Sides, axis \in Axes(vf.dimension), value \in WrittenValues :
          WriteBounds(side, axis, value)
    \/ \E resolution \in 0..MaxResolution : SampleGrid(resolution)
    \/ Continue

SpecBounds == InitBounds /\ [][NextBounds]_vars

\* C11: no write that a caller makes to the object getBounds returned (or
\* to its min/max members) changes the bounds of the engine: the box stays
\* the one of construction, and a later sampleGrid samples that box.
C11_ViewWritesLeaveEngineBounds ==
    view.written =>
        /\ vf.bounds = view.original
        /\ (ret.op = "sampleGrid" =>
               ret.samples = sampleGrid([vf EXCEPT !.bounds = view.original],
                                        heap[vf.params], ret.resolution, EmptyObject))

\* C12: every VectorField has bounds.min[a] <= bounds.max[a] on every axis,
\* whether its bounds are the default ones or were supplied by the caller,
\* and the default box is [-10,10] on x,y (dimension 2) and [-5,5] on
\* x,y,z (dimension 3).
C12_BoundsOrdered ==
    /\ \A axis \in Axes(vf.dimension) :
          ~NumLess(vf.bounds.max[axis], vf.bounds.min[axis])
    /\ (view.supplied = NullBounds /\ ~view.written) =>
          vf.bounds = Box(vf.dimension,
                          IF vf.dimension = 2 THEN I(-10) ELSE I(-5),
                          IF vf.dimension = 2 THEN I(10) ELSE I(5))


(***************************************************************************)
(* The visualization modes and the SceneManager.  A mesh is an object with  *)
(* an identity: mode.meshes and scene.meshes hold identities, mode.objects  *)
(* what each mesh is made of.  The identity of a mesh is <<r, n>>: it is    *)
(* the n-th mesh the r-th render() of the mode constructed.                 *)
(***************************************************************************)
MaxRenders == 2

MaxTicks == 2

\* Math.sqrt: exact where the root is rational, and rounded down to
\* 1/SqrtDigits of the denominator's root where it is not.
SqrtDigits == 100

RECURSIVE ISqrtIn(_, _, _)
ISqrtIn(n, lo, hi) ==
    IF lo >= hi THEN lo
    ELSE LET mid == (lo + hi + 1) \div 2
         IN  IF mid * mid <= n THEN ISqrtIn(n, mid, hi) ELSE ISqrtIn(n, lo, mid - 1)

ISqrt(n) == ISqrtIn(n, 0, IF n < 46340 THEN n ELSE 46340)

MathSqrt(v) ==
    IF v.d <= 0 THEN (IF v.d = 0 /\ v.n = 1 THEN PosInf ELSE NaN)
    ELSE IF v.n < 0 THEN NaN
    ELSE LET rn == ISqrt(v.n)
             rd == ISqrt(v.d)
         IN  IF rn * rn = v.n /\ rd * rd = v.d THEN Num(rn, rd)
             ELSE IF rd * rd = v.d
                  THEN Num(ISqrt(v.n * SqrtDigits * SqrtDigits), rd * SqrtDigits)
                  ELSE Num(ISqrt(v.n * v.d * SqrtDigits * SqrtDigits), v.d * SqrtDigits)

\* Math.ceil on a finite number, as an integer.
MathCeil(v) == -((-v.n) \div v.d)

MathMin(a, b) == IF a.d = 0 /\ a.n = 0 THEN a
                 ELSE IF b.d = 0 /\ b.n = 0 THEN b
                 ELSE IF NumLess(b, a) THEN b ELSE a

MathMax(a, b) == IF a.d = 0 /\ a.n = 0 THEN a
                 ELSE IF b.d = 0 /\ b.n = 0 THEN b
                 ELSE IF NumLess(a, b) THEN b ELSE a

\* a || b on numbers: b when a is 0 or NaN.
OrElse(a, b) == IF a.n = 0 THEN b ELSE a

RECURSIVE SumSquares(_, _)
SumSquares(vector, n) ==
    IF n = 0 THEN I(0)
    ELSE NumAdd(SumSquares(vector, n - 1), NumMul(vector[n], vector[n]))

\* Math.sqrt(vector.reduce((sum, v) => sum + v * v, 0))
Magnitude(vector) == MathSqrt(SumSquares(vector, Len(vector)))

\* The state a mode's methods work on: its mesh list, the SceneManager's,
\* the meshes themselves, and the number of meshes this render constructed.
World(m, sc) ==
    [meshes |-> m.meshes, sceneMeshes |-> sc.meshes, objects |-> m.objects, made |-> 0]

\* const idx = list.indexOf(id); if (idx > -1) list.splice(idx, 1)
RemoveFirst(list, id) ==
    IF \A n \in 1..Len(list) : list[n] # id THEN list
    ELSE LET idx == CHOOSE n \in 1..Len(list) :
                        list[n] = id /\ \A m \in 1..(n - 1) : list[m] # id
         IN  SubSeq(list, 1, idx - 1) \o SubSeq(list, idx + 1, Len(list))

\* SceneManager.addMesh
addMesh(w, id) == [w EXCEPT !.sceneMeshes = Append(w.sceneMeshes, id)]

\* SceneManager.removeMesh: indexOf, splice.
removeMesh(w, id) == [w EXCEPT !.sceneMeshes = RemoveFirst(w.sceneMeshes, id)]

\* SceneManager.clearMeshes
clearMeshes(sc) == [sc EXCEPT !.meshes = <<>>]

\* list.forEach(mesh => this.sceneManager.removeMesh(mesh)), entries
\* lo..hi: the first half of them and then the rest.
RECURSIVE RemoveEach(_, _, _, _)
RemoveEach(w, list, lo, hi) ==
    IF lo > hi THEN w
    ELSE IF lo = hi THEN removeMesh(w, list[lo])
    ELSE CHOOSE out \in
            {RemoveEach(x, list, ((lo + hi) \div 2) + 1, hi) :
                x \in {RemoveEach(w, list, lo, (lo + hi) \div 2)}} : TRUE

clearKeepsScene(w) == [w EXCEPT !.meshes = <<>>]

\* VisualizationMode.clear
clear(w) == [RemoveEach(w, w.meshes, 1, Len(w.meshes)) EXCEPT !.meshes = <<>>]

\* this.meshes.push(mesh); return this.sceneManager.addMesh(mesh)
Register(w, render, mesh) ==
    LET id == <<render, w.made + 1>>
        pushed == [w EXCEPT !.meshes = Append(w.meshes, id),
                            !.objects = [o \in DOMAIN w.objects \cup {id} |->
                                            IF o = id THEN mesh ELSE w.objects[o]],
                            !.made = w.made + 1]
    IN  addMesh(pushed, id)


\* What a mesh is made of.  An arrow (THREE.Group) has a shaft of height
\* shaftHeight centred shaftAt along dir from position, and a head of height
\* headHeight centred headAt; a point is a sphere of radius size; the points
\* of a heatmap are one mesh of count vertices.
NoMesh ==
    [shape |-> "none", position |-> EmptyObject, dir |-> EmptyObject,
     shaftHeight |-> I(0), shaftAt |-> I(0), headHeight |-> I(0), headAt |-> I(0),
     size |-> I(0), count |-> 0, color |-> I(0), opacity |-> I(0)]

\* z || 0 on a coordinate that may be missing.
CoordOrZero(position, axis) ==
    IF axis \in DOMAIN position THEN OrElse(position[axis], I(0)) ELSE I(0)

\* VisualizationMode.createArrow
createArrow(w, render, start, direction, length, color, opacity, showHead) ==
    LET dir == <<direction.x, direction.y, CoordOrZero(direction, "z")>>
        magnitude == Magnitude(dir)
    IN  IF magnitude = I(0) THEN w
        ELSE Register(w, render,
                 [NoMesh EXCEPT
                     !.shape = "arrow",
                     !.position = start,
                     !.dir = [x |-> NumDiv(dir[1], magnitude),
                              y |-> NumDiv(dir[2], magnitude),
                              z |-> NumDiv(dir[3], magnitude)],
                     !.shaftHeight = NumMul(length, Num(7, 10)),
                     !.shaftAt = NumMul(length, Num(35, 100)),
                     !.headHeight = IF showHead THEN NumMul(length, Num(3, 10)) ELSE I(0),
                     !.headAt = IF showHead THEN NumMul(length, Num(85, 100)) ELSE I(0),
                     !.color = color,
                     !.opacity = opacity])

\* VisualizationMode.createPoint
createPoint(w, render, position, size, color, opacity) ==
    Register(w, render,
        [NoMesh EXCEPT
            !.shape = "point",
            !.position = [x |-> position.x, y |-> position.y,
                          z |-> CoordOrZero(position, "z")],
            !.size = size, !.color = color, !.opacity = opacity])

\* VisualizationMode.updateMeshColors: every mesh of the mode takes the
\* configured color and opacity.
updateMeshColors(objects, meshes, config) ==
    [o \in DOMAIN objects |->
        IF \E n \in 1..Len(meshes) : meshes[n] = o
        THEN [objects[o] EXCEPT !.color = config.color, !.opacity = config.opacity]
        ELSE objects[o]]

\* VisualizationMode.updateStyle: this.config = { ...this.config, ...config }
updateStyle(config, given) == Merge(config, given)

\* resolution = 15 (ArrowMode), 30 (HeatmapMode)
ArrowResolution == 15

HeatmapResolution == 30

ArrowDefaultConfig ==
    [color |-> I(26367), opacity |-> I(1), scale |-> I(1), density |-> I(1),
     animated |-> FALSE, arrowSize |-> Num(1, 10)]

\* The grid of ArrowMode.render: x by the outer loop, y by the inner one;
\* a 3D field is sampled on the slice z = 0.
ArrowSamples(bounds, dimension, resolutionScaled) ==
    [n \in 1..(resolutionScaled * resolutionScaled) |->
        LET x == GridCoord(bounds, "x", resolutionScaled, (n - 1) \div resolutionScaled)
            y == GridCoord(bounds, "y", resolutionScaled, (n - 1) % resolutionScaled)
        IN  IF dimension = 2 THEN [x |-> x, y |-> y] ELSE [x |-> x, y |-> y, z |-> I(0)]]

\* ArrowMode.getMaxMagnitude
RECURSIVE getMaxMagnitude(_, _, _, _)
getMaxMagnitude(this, stored, samples, n) ==
    IF n = 0 THEN I(0)
    ELSE LET vector == evaluateAt(this.dimension, this.func, stored, samples[n], EmptyObject)
             before == getMaxMagnitude(this, stored, samples, n - 1)
         IN  IF vector.isNull THEN before ELSE MathMax(before, Magnitude(vector.arr))

\* Math.min(displayScale * magnitude / (maxMagnitude || 1), displayScale)
ArrowLength(displayScale, magnitude, maxMagnitude) ==
    MathMin(NumDiv(NumMul(displayScale, magnitude), OrElse(maxMagnitude, I(1))),
            displayScale)

\* direction * (arrowLength / magnitude || 0)
DisplayDir(arr, arrowLength, magnitude) ==
    LET factor == OrElse(NumDiv(arrowLength, magnitude), I(0))
    IN  [x |-> NumMul(arr[1], factor),
         y |-> NumMul(arr[2], factor),
         z |-> NumMul(IF Len(arr) >= 3 THEN OrElse(arr[3], I(0)) ELSE I(0), factor)]

\* magnitude < 1e-6, i.e. n * 1000000 < d for the number n/d.
BelowEpsilon(v) == v.d > 0 /\ v.n <= (v.d - 1) \div 1000000

\* One pass of the loop that creates the arrows.
ArrowAt(w, render, config, pos, vector, maxMagnitude) ==
    IF vector.isNull THEN w
    ELSE IF BelowEpsilon(Magnitude(vector.arr)) THEN w
    ELSE createArrow(w, render,
                     [x |-> pos.x, y |-> pos.y, z |-> CoordOrZero(pos, "z")],
                     DisplayDir(vector.arr,
                                ArrowLength(NumMul(config.scale, Num(8, 10)),
                                            Magnitude(vector.arr), maxMagnitude),
                                Magnitude(vector.arr)),
                     I(1), config.color, config.opacity, TRUE)

RECURSIVE ArrowLoop(_, _, _, _, _, _, _, _)
ArrowLoop(w, render, config, this, stored, samples, maxMagnitude, n) ==
    IF n > Len(samples) THEN w
    ELSE ArrowLoop(ArrowAt(w, render, config, samples[n],
                           evaluateAt(this.dimension, this.func, stored, samples[n],
                                      EmptyObject),
                           maxMagnitude),
                   render, config, this, stored, samples, maxMagnitude, n + 1)

\* ArrowMode.render
ArrowRender(w, render, config, this, stored) ==
    LET samples == ArrowSamples(this.bounds, this.dimension,
                                MathCeil(NumMul(I(ArrowResolution), config.density)))
    IN  ArrowLoop(clear(w), render, config, this, stored, samples,
                  getMaxMagnitude(this, stored, samples, Len(samples)), 1)


HeatmapDefaultConfig ==
    [color |-> I(26367), opacity |-> I(1), scale |-> I(1), density |-> I(1),
     animated |-> FALSE]

\* bounds.min.a + (index / (resolutionScaled - 1)) * span
HeatCoord(bounds, axis, resolutionScaled, index) ==
    NumAdd(bounds.min[axis],
           NumMul(NumDiv(I(index), I(resolutionScaled - 1)),
                  NumSub(bounds.max[axis], bounds.min[axis])))

\* The number of grid points of HeatmapMode.render with a valid vector.
RECURSIVE HeatSamples(_, _, _, _)
HeatSamples(this, stored, resolutionScaled, n) ==
    IF n = 0 THEN 0
    ELSE LET position ==
                 [x |-> HeatCoord(this.bounds, "x", resolutionScaled,
                                  (n - 1) \div resolutionScaled),
                  y |-> HeatCoord(this.bounds, "y", resolutionScaled,
                                  (n - 1) % resolutionScaled),
                  z |-> I(0)]
         IN  HeatSamples(this, stored, resolutionScaled, n - 1)
               + (IF evaluateAt(this.dimension, this.func, stored, position,
                                EmptyObject).isNull THEN 0 ELSE 1)

\* HeatmapMode.render: one THREE.Points mesh with a vertex per valid sample.
HeatmapRender(w, render, config, this, stored) ==
    LET resolutionScaled == MathCeil(NumMul(I(HeatmapResolution), config.density))
    IN  Register(clear(w), render,
            [NoMesh EXCEPT
                !.shape = "points",
                !.count = HeatSamples(this, stored, resolutionScaled,
                                      resolutionScaled * resolutionScaled),
                !.size = NumMul(Num(2, 10), config.scale),
                !.opacity = config.opacity])

\* numParticles = 100 (ParticleMode), numStreamlines = 20 (StreamlineMode)
NumParticles == 100

NumStreamlines == 20

ParticleDefaultConfig ==
    [color |-> I(26367), opacity |-> Num(8, 10), scale |-> I(1), density |-> I(1),
     animated |-> TRUE]

\* bounds.min.a + Math.random() * (bounds.max.a - bounds.min.a); for z,
\* bounds.min.z ? ... : 0.
RandomCoord(bounds, axis, random) ==
    IF axis \in DOMAIN bounds.min /\ (axis # "z" \/ bounds.min[axis].n # 0)
    THEN NumAdd(bounds.min[axis],
                NumMul(random, NumSub(bounds.max[axis], bounds.min[axis])))
    ELSE I(0)

\* The loop of ParticleMode.render; randoms[i] are the three values
\* Math.random() gives for particle i.
RECURSIVE ParticleLoop(_, _, _, _, _, _)
ParticleLoop(wp, render, config, bounds, randoms, i) ==
    IF i > Len(randoms) THEN wp
    ELSE LET position == [x |-> RandomCoord(bounds, "x", randoms[i][1]),
                          y |-> RandomCoord(bounds, "y", randoms[i][2]),
                          z |-> RandomCoord(bounds, "z", randoms[i][3])]
             w == createPoint(wp.w, render, position,
                              NumMul(Num(5, 100), config.scale),
                              config.color, config.opacity)
         IN  ParticleLoop([w |-> w,
                           particles |-> Append(wp.particles,
                               [mesh |-> <<render, w.made>>, position |-> position])],
                          render, config, bounds, randoms, i + 1)

\* ParticleMode.render: [w, particles]
ParticleRender(w, render, config, this, randoms) ==
    ParticleLoop([w |-> clear(w), particles |-> <<>>], render, config,
                 this.bounds, randoms, 1)

WrapNever(value, lo, hi) == value

\* if (p > max) p = min;  if (p < min) p = max;
Wrap(value, lo, hi) ==
    LET above == IF NumLess(hi, value) THEN lo ELSE value
    IN  IF NumLess(above, lo) THEN hi ELSE above

\* position.a += vector[i] * deltaTime * speed * 0.1
EulerStep(value, component, deltaTime) ==
    NumAdd(value, NumMul(NumMul(NumMul(component, deltaTime), I(1)), Num(1, 10)))

\* One particle of ParticleMode.update.
Advect(position, vector, bounds, deltaTime) ==
    IF vector.isNull THEN position
    ELSE IF ~NumLess(I(0), Magnitude(vector.arr)) THEN position
    ELSE LET x == EulerStep(position.x, vector.arr[1], deltaTime)
             y == EulerStep(position.y, vector.arr[2], deltaTime)
             z == IF Len(vector.arr) >= 3
                  THEN EulerStep(position.z, vector.arr[3], deltaTime)
                  ELSE position.z
         IN  [x |-> Wrap(x, bounds.min.x, bounds.max.x),
              y |-> Wrap(y, bounds.min.y, bounds.max.y),
              z |-> IF "z" \in DOMAIN bounds.min
                    THEN Wrap(z, bounds.min.z, bounds.max.z) ELSE z]

\* ParticleMode.update: the particles after the tick.
update(particles, this, stored, deltaTime) ==
    [i \in 1..Len(particles) |->
        [particles[i] EXCEPT !.position =
            Advect(particles[i].position,
                   evaluateAt(this.dimension, this.func, stored,
                              particles[i].position, EmptyObject),
                   this.bounds, deltaTime)]]


StreamlineDefaultConfig ==
    [color |-> I(16777215), opacity |-> I(1), scale |-> I(1), density |-> Num(3, 2),
     animated |-> FALSE]

\* Math.ceil(Math.sqrt(count)) for an integer count >= 0.
CeilSqrt(count) == LET r == ISqrt(count) IN IF r * r = count THEN r ELSE r + 1

\* bounds.min.a + (index + 0.5) / sqrtCount * span
SeedCoord(bounds, axis, sqrtCount, index) ==
    NumAdd(bounds.min[axis],
           NumMul(NumDiv(NumAdd(I(index), Num(1, 2)), I(sqrtCount)),
                  NumSub(bounds.max[axis], bounds.min[axis])))

\* seeds.slice(0, count)
SliceTo(seq, count) == SubSeq(seq, 1, IF count < Len(seq) THEN count ELSE Len(seq))

\* StreamlineMode.generateSeedPoints
generateSeedPoints(bounds, count) ==
    LET sqrtCount == CeilSqrt(count)
        seeds == [n \in 1..(sqrtCount * sqrtCount) |->
                     [x |-> SeedCoord(bounds, "x", sqrtCount, (n - 1) \div sqrtCount),
                      y |-> SeedCoord(bounds, "y", sqrtCount, (n - 1) % sqrtCount),
                      z |-> I(0)]]
    IN  SliceTo(seeds, count)

StageStepNoPush(this, stored, r, kn) ==
    IF kn.isNull THEN OnInvalidStage(r)
    ELSE IF r.stage < 4
    THEN [r EXCEPT !.stage = r.stage + 1, !.k = Append(r.k, kn.arr),
                   !.evals = r.evals + 1]
    ELSE [r EXCEPT !.current = addPosition(r.current,
                                   scaleVector(StageAverage(r.k[1], r.k[2], r.k[3], kn.arr),
                                               r.dt)),
                   !.i = r.i + 1, !.stage = 1, !.k = <<>>, !.evals = r.evals + 1]

\* One stage evaluation of integrateRK4 on the activation r.
StageStep(this, stored, r, kn) ==
    IF kn.isNull THEN OnInvalidStage(r)
    ELSE IF r.stage < 4
    THEN [r EXCEPT !.stage = r.stage + 1, !.k = Append(r.k, kn.arr),
                   !.evals = r.evals + 1]
    ELSE [r EXCEPT !.current = addPosition(r.current,
                                   scaleVector(StageAverage(r.k[1], r.k[2], r.k[3], kn.arr),
                                               r.dt)),
                   !.path = Append(r.path,
                                   addPosition(r.current,
                                       scaleVector(StageAverage(r.k[1], r.k[2], r.k[3], kn.arr),
                                                   r.dt))),
                   !.i = r.i + 1, !.stage = 1, !.k = <<>>, !.evals = r.evals + 1]

\* One pass of the loop of integrateRK4 on the activation r, a stage at a
\* time: nothing more happens once the loop was left.
StageOrStay(this, stored, r) ==
    IF r.pc = "done" \/ ~(r.i < r.steps) THEN r
    ELSE StageStep(this, stored, r,
                   evaluateAt(this.dimension, this.func, stored,
                              StagePosition(r.current, r.stage, r.k, r.dt),
                              r.params))

\* n stage evaluations from the activation r on, the first half of them and
\* then the rest (x is the activation between the two).
RECURSIVE RunStages(_, _, _, _)
RunStages(this, stored, r, n) ==
    IF n = 0 THEN r
    ELSE IF n = 1 THEN StageOrStay(this, stored, r)
    ELSE CHOOSE out \in
            {RunStages(this, stored, x, n - (n \div 2)) :
                x \in {RunStages(this, stored, r, n \div 2)}} : TRUE

\* VectorField.integrateRK4 as one call: the path it returns, after at most
\* 4 * steps stage evaluations.
integrateRK4(this, stored, startPos, steps, dt) ==
    RunStages(this, stored,
              [RkIdle EXCEPT !.pc = "loop", !.seed = startPos, !.steps = steps,
                             !.dt = dt, !.path = <<startPos>>, !.current = startPos],
              4 * steps).path

\* integrateRK4(seed, 50, 0.2)
StreamlineSteps == 50

\* for (let i = 0; i < path.length; i += stepSize) this.createPoint(path[i])
\* Passes lo..hi of the loop (pass k marks path[k * stepSize]), the first
\* half of them and then the rest.
RECURSIVE MarkPath(_, _, _, _, _, _, _)
MarkPath(w, render, config, path, stepSize, lo, hi) ==
    IF lo > hi THEN w
    ELSE IF lo = hi
    THEN createPoint(w, render, path[lo * stepSize + 1],
                     NumMul(Num(15, 100), config.scale), config.color, config.opacity)
    ELSE CHOOSE out \in
            {MarkPath(x, render, config, path, stepSize, ((lo + hi) \div 2) + 1, hi) :
                x \in {MarkPath(w, render, config, path, stepSize, lo, (lo + hi) \div 2)}} :
            TRUE

\* The loop over the seeds: paths shorter than 2 are skipped.
RECURSIVE TraceLoop(_, _, _, _, _, _, _)
TraceLoop(w, render, config, this, stored, seedPoints, s) ==
    IF s > Len(seedPoints) THEN w
    ELSE LET path == integrateRK4(this, stored, seedPoints[s], StreamlineSteps, Num(2, 10))
             stepSize == IF Len(path) \div 20 > 2 THEN Len(path) \div 20 ELSE 2
         IN  TraceLoop(IF Len(path) < 2 THEN w
                       ELSE MarkPath(w, render, config, path, stepSize, 0,
                                     (Len(path) - 1) \div stepSize),
                       render, config, this, stored, seedPoints, s + 1)

\* StreamlineMode.render
StreamlineRender(w, render, config, this, stored) ==
    TraceLoop(clear(w), render, config, this, stored,
              generateSeedPoints(this.bounds,
                  MathCeil(NumMul(NumMul(I(NumStreamlines), config.density), Num(4, 10)))),
              1)


(***************************************************************************)
(* A visualization mode in use.  UIController.updateVisualization makes a   *)
(* mode, gives it the style of the controls and renders it; the frame loop  *)
(* ticks it; the style may change, and the mode or the scene be cleared.    *)
(***************************************************************************)
ModeKinds == {"arrows", "streamlines", "particles", "heatmap"}

DefaultConfig(kind) ==
    CASE kind = "arrows" -> ArrowDefaultConfig
      [] kind = "streamlines" -> StreamlineDefaultConfig
      [] kind = "particles" -> ParticleDefaultConfig
      [] kind = "heatmap" -> HeatmapDefaultConfig

\* Fields the modes draw: [x + y, 0] and [1/x, 0], which is Invalid on
\* x = 0; in three dimensions they are [x + y, 0, z] and [1/x, 0, 0].
ModeFieldComps(name, k) ==
    LET two == IF name = "sum"
               THEN <<Op("add", <<Sym("x"), Sym("y")>>), Const(0)>>
               ELSE <<Op("divide", <<Const(1), Sym("x")>>), Const(0)>>
    IN  IF k = 2 THEN two
        ELSE Append(two, IF name = "sum" THEN Sym("z") ELSE Const(0))

ModeFields(k) == {Compiled(ModeFieldComps(name, k)) : name \in {"sum", "pole"}}

\* Densities of the density control that give the mode a grid of 2 or 3
\* per axis, 1 or 2 particles, 1 or 2 streamlines.
Densities(kind) ==
    CASE kind = "arrows" -> <<Num(2, 15), Num(1, 5)>>
      [] kind = "streamlines" -> <<Num(1, 8), Num(1, 4)>>
      [] kind = "particles" -> <<Num(1, 100), Num(1, 50)>>
      [] kind = "heatmap" -> <<Num(1, 15), Num(1, 10)>>

\* The style updateVisualization passes: all four controls.
ControlStyle(kind) ==
    [color |-> I(26367), scale |-> I(1), density |-> Densities(kind)[1], opacity |-> I(1)]

\* Later style changes: some of the recognized keys, and another key.
StyleInputs(kind) ==
    {[scale |-> I(2), opacity |-> Num(1, 2)],
     [density |-> Densities(kind)[2], showArrowheads |-> FALSE]}

\* What Math.random() returns for the x, y and z of a particle.
RandomValues == {<<Num(1, 4), Num(3, 4), Num(3, 4)>>, <<Num(3, 4), Num(1, 4), Num(1, 4)>>}

DeltaTimes == {I(10), I(20)}

NoLast == [op |-> "none", before |-> EmptyObject, given |-> EmptyObject,
           particles |-> <<>>, deltaTime |-> I(0), count |-> 0, seeds |-> <<>>]

InitModes ==
    /\ \E dimension \in Dimensions : \E func \in ModeFields(dimension) :
          vf = NewVectorField(dimension, func)
    /\ heap = [o \in {EngineObject} |-> EmptyObject]
    /\ ret = NoCall
    /\ rk = RkIdle
    /\ ps = PsIdle
    /\ \E kind \in ModeKinds :
          mode = [constructed |-> TRUE, kind |-> kind,
                  config |-> updateStyle(DefaultConfig(kind), ControlStyle(kind)),
                  meshes |-> <<>>, objects |-> <<>>, particles |-> <<>>,
                  renders |-> 0, ticks |-> 0, last |-> NoLast]
    /\ scene = [constructed |-> TRUE, meshes |-> <<>>]
    /\ view = NotConstructed
    /\ ui = NotConstructed
    /\ viz = NotConstructed
    /\ app = NotConstructed

\* The meshes that some list still refers to.
Referenced(objects, meshes, sceneMeshes) ==
    [o \in {id \in DOMAIN objects :
               \/ \E n \in 1..Len(meshes) : meshes[n] = id
               \/ \E n \in 1..Len(sceneMeshes) : sceneMeshes[n] = id} |-> objects[o]]

\* The mode and the scene after a method of the mode left the world w.
ModeAfter(m, w, op) ==
    [m EXCEPT !.meshes = w.meshes,
              !.objects = Referenced(w.objects, w.meshes, w.sceneMeshes),
              !.last = [NoLast EXCEPT !.op = op]]

UpdateStyle(given) ==
    /\ mode.last.op = "none"
    /\ mode' = [mode EXCEPT
                   !.config = updateStyle(mode.config, given),
                   !.objects = updateMeshColors(mode.objects, mode.meshes,
                                                updateStyle(mode.config, given)),
                   !.last = [NoLast EXCEPT !.op = "updateStyle",
                                           !.before = mode.config,
                                           !.given = given]]
    /\ UNCHANGED <<vf, heap, ret, rk, ps, view, scene, ui, viz, app>>

\* How many particles render() makes.
ParticleCount(config) == MathCeil(NumMul(I(NumParticles), config.density))

RandomInputs(m) ==
    IF m.kind = "particles"
    THEN [1..ParticleCount(m.config) -> RandomValues]
    ELSE {<<>>}

\* The render() of each mode class: the world it leaves and the particle list.
RenderOf(kind, w0, render, config, this, stored, particles, randoms) ==
    CASE kind = "arrows" ->
            [w |-> ArrowRender(w0, render, config, this, stored),
             particles |-> particles]
      [] kind = "streamlines" ->
            [w |-> StreamlineRender(w0, render, config, this, stored),
             particles |-> particles]
      [] kind = "heatmap" ->
            [w |-> HeatmapRender(w0, render, config, this, stored),
             particles |-> particles]
      [] kind = "particles" ->
            ParticleRender(w0, render, config, this, randoms)

\* mode.render(); randoms are the values Math.random() returns during it.
Render(randoms) ==
    /\ mode.last.op = "none"
    /\ mode.renders < MaxRenders
    /\ \E drawn \in {RenderOf(mode.kind, World(mode, scene), mode.renders + 1,
                             mode.config, vf, heap[vf.params], mode.particles,
                             randoms)} :
           /\ mode' = [ModeAfter(mode, drawn.w, "render") EXCEPT
                          !.particles = drawn.particles,
                          !.renders = mode.renders + 1]
           /\ scene' = [scene EXCEPT !.meshes = drawn.w.sceneMeshes]
    /\ UNCHANGED <<vf, heap, ret, rk, ps, view, ui, viz, app>>


\* particle.mesh.position.copy(particle.position), on the meshes that exist.
MoveMeshes(objects, particles) ==
    [o \in DOMAIN objects |->
        IF \E i \in 1..Len(particles) : particles[i].mesh = o
        THEN [objects[o] EXCEPT !.position =
                 particles[CHOOSE i \in 1..Len(particles) : particles[i].mesh = o].position]
        ELSE objects[o]]

\* particleMode.update(deltaTime), the tick of the frame loop.
Update(deltaTime) ==
    /\ mode.last.op = "none"
    /\ mode.kind = "particles"
    /\ mode.ticks < MaxTicks
    /\ \E moved \in {update(mode.particles, vf, heap[vf.params], deltaTime)} :
           mode' = [mode EXCEPT
                       !.particles = moved,
                       !.objects = MoveMeshes(mode.objects, moved),
                       !.ticks = mode.ticks + 1,
                       !.last = [NoLast EXCEPT !.op = "update",
                                               !.particles = mode.particles,
                                               !.deltaTime = deltaTime]]
    /\ UNCHANGED <<vf, heap, ret, rk, ps, view, scene, ui, viz, app>>

\* mode.clear()
Clear ==
    /\ mode.last.op = "none"
    /\ \E w \in {clear(World(mode, scene))} :
           /\ mode' = ModeAfter(mode, w, "clear")
           /\ scene' = [scene EXCEPT !.meshes = w.sceneMeshes]
    /\ UNCHANGED <<vf, heap, ret, rk, ps, view, ui, viz, app>>

\* mode.dispose(): this.clear()
Dispose ==
    /\ mode.last.op = "none"
    /\ \E w \in {clear(World(mode, scene))} :
           /\ mode' = ModeAfter(mode, w, "dispose")
           /\ scene' = [scene EXCEPT !.meshes = w.sceneMeshes]
    /\ UNCHANGED <<vf, heap, ret, rk, ps, view, ui, viz, app>>

\* sceneManager.clearMeshes(), as updateVisualization calls it.
ClearMeshes ==
    /\ mode.last.op = "none"
    /\ scene' = clearMeshes(scene)
    /\ mode' = [mode EXCEPT !.objects = Referenced(mode.objects, mode.meshes, <<>>),
                            !.last = [NoLast EXCEPT !.op = "clearMeshes"]]
    /\ UNCHANGED <<vf, heap, ret, rk, ps, view, ui, viz, app>>

\* The method has returned; the caller goes on.
Return ==
    /\ mode.last.op # "none"
    /\ mode' = [mode EXCEPT !.last = NoLast]
    /\ UNCHANGED <<vf, heap, ret, rk, ps, view, scene, ui, viz, app>>

NextModes ==
    \/ \E given \in StyleInputs(mode.kind) : UpdateStyle(given)
    \/ \E randoms \in RandomInputs(mode) : Render(randoms)
    \/ Clear
    \/ Dispose
    \/ ClearMeshes
    \/ Return

SpecModes == InitModes /\ [][NextModes]_vars


(***************************************************************************)
(* The particles of a ParticleMode under the frame loop: rendered, then     *)
(* advected tick after tick, and rendered again when the style changes.     *)
(***************************************************************************)
InitParticles ==
    /\ \E dimension \in Dimensions : \E func \in ModeFields(dimension) :
          vf = NewVectorField(dimension, func)
    /\ heap = [o \in {EngineObject} |-> EmptyObject]
    /\ ret = NoCall
    /\ rk = RkIdle
    /\ ps = PsIdle
    /\ \E n \in 1..2 :
          mode = [constructed |-> TRUE, kind |-> "particles",
                  config |-> updateStyle(ParticleDefaultConfig,
                                [ControlStyle("particles") EXCEPT
                                    !.density = Densities("particles")[n]]),
                  meshes |-> <<>>, objects |-> <<>>, particles |-> <<>>,
                  renders |-> 0, ticks |-> 0, last |-> NoLast]
    /\ scene = [constructed |-> TRUE, meshes |-> <<>>]
    /\ view = NotConstructed
    /\ ui = NotConstructed
    /\ viz = NotConstructed
    /\ app = NotConstructed

NextParticles ==
    \/ \E randoms \in RandomInputs(mode) : Render(randoms)
    \/ \E deltaTime \in DeltaTimes : Update(deltaTime)
    \/ Return

SpecParticles == InitParticles /\ [][NextParticles]_vars

----------------------------------------------------------------------------
\* StreamlineMode.generateSeedPoints on its own: the boxes a field can have
\* (min below max on every axis) and the counts a caller asks for.

MaxSeeds == 9

SeedBoxes(dimension) ==
    {Box(dimension, I(p[1]), I(p[2])) :
        p \in {q \in (-1..1) \X (0..2) : q[1] < q[2]}}

InitSeeds ==
    /\ \E dimension \in Dimensions : \E bounds \in SeedBoxes(dimension) :
          vf = NewVectorFieldIn(dimension, Compiled(ModeFieldComps("sum", dimension)),
                                bounds)
    /\ heap = [o \in {EngineObject} |-> EmptyObject]
    /\ ret = NoCall
    /\ rk = RkIdle
    /\ ps = PsIdle
    /\ mode = [constructed |-> TRUE, kind |-> "streamlines",
               config |-> StreamlineDefaultConfig,
               meshes |-> <<>>, objects |-> <<>>, particles |-> <<>>,
               renders |-> 0, ticks |-> 0, last |-> NoLast]
    /\ scene = [constructed |-> TRUE, meshes |-> <<>>]
    /\ view = NotConstructed
    /\ ui = NotConstructed
    /\ viz = NotConstructed
    /\ app = NotConstructed

\* this.generateSeedPoints(this.vectorField.getBounds(), count)
GenerateSeedPoints(count) ==
    /\ mode.last.op = "none"
    /\ mode' = [mode EXCEPT
                   !.last = [NoLast EXCEPT
                                !.op = "generateSeedPoints",
                                !.count = count,
                                !.seeds = generateSeedPoints(getBounds(vf).box, count)]]
    /\ UNCHANGED <<vf, heap, ret, rk, ps, view, scene, ui, viz, app>>

NextSeeds ==
    \/ \E count \in 1..MaxSeeds : GenerateSeedPoints(count)
    \/ Return

SpecSeeds == InitSeeds /\ [][NextSeeds]_vars

----------------------------------------------------------------------------
\* Claims about the visualization modes.

\* How far the geometry of an arrow reaches from its start along its
\* direction: the far end of the cone (centred at headAt), or of the shaft.
ArrowTip(mesh) ==
    IF mesh.headHeight # I(0)
    THEN NumAdd(mesh.headAt, NumDiv(mesh.headHeight, I(2)))
    ELSE NumAdd(mesh.shaftAt, NumDiv(mesh.shaftHeight, I(2)))

\* The arrows of the mode that start at the sample pos.
ArrowsAt(pos) ==
    {n \in 1..Len(mode.meshes) :
        /\ mode.objects[mode.meshes[n]].shape = "arrow"
        /\ mode.objects[mode.meshes[n]].position =
              [x |-> pos.x, y |-> pos.y, z |-> CoordOrZero(pos, "z")]}

RenderedSamples ==
    ArrowSamples(vf.bounds, vf.dimension,
                 MathCeil(NumMul(I(ArrowResolution), mode.config.density)))

JustRenderedArrows ==
    mode.constructed /\ mode.kind = "arrows" /\ mode.last.op = "render"

CellCentre(axis, n, index) ==
    NumAdd(vf.bounds.min[axis],
           NumDiv(NumMul(Num(2 * index + 1, 2),
                         NumSub(vf.bounds.max[axis], vf.bounds.min[axis])),
                  I(n)))

StrictlyInside(seed, axis) ==
    /\ axis \in DOMAIN seed
    /\ NumLess(vf.bounds.min[axis], seed[axis])
    /\ NumLess(seed[axis], vf.bounds.max[axis])

\* C14: generateSeedPoints(bounds, count), for a positive integer count and
\* a box with min < max, returns exactly count seeds, pairwise distinct, each
\* at a cell centre of the n-by-n sub-grid with n = ceil(sqrt(count)), and
\* every seed lies strictly inside the bounds, on every axis of the box.
C14_SeedsAtCellCentresInsideBounds ==
    (mode.constructed /\ mode.last.op = "generateSeedPoints") =>
        \A seeds \in {mode.last.seeds} :
        \A n \in {CHOOSE n \in 1..mode.last.count :
                      n * n >= mode.last.count /\ (n - 1) * (n - 1) < mode.last.count} :
            /\ Len(seeds) = mode.last.count
            /\ \A a, b \in 1..Len(seeds) : a # b => seeds[a] # seeds[b]
            /\ \A a \in 1..Len(seeds) :
                  /\ \E i, j \in 0..(n - 1) :
                        /\ seeds[a].x = CellCentre("x", n, i)
                        /\ seeds[a].y = CellCentre("y", n, j)
                  /\ \A axis \in DOMAIN vf.bounds.min : StrictlyInside(seeds[a], axis)

Within(value, lo, hi) == ~NumLess(value, lo) /\ ~NumLess(hi, value)

\* What the tick recorded in mode.last did to particle i: whether it moved,
\* and where the Euler step alone put it.
TickVector(i) ==
    evaluateAt(vf.dimension, vf.func, heap[vf.params],
               mode.last.particles[i].position, EmptyObject)

TickMoved(i) ==
    \A vector \in {TickVector(i)} :
        ~vector.isNull /\ NumLess(I(0), Magnitude(vector.arr))

ComponentOf(axis) == IF axis = "x" THEN 1 ELSE IF axis = "y" THEN 2 ELSE 3

SteppedTo(i, axis) ==
    IF ~TickMoved(i) \/ ComponentOf(axis) > Len(TickVector(i).arr)
    THEN mode.last.particles[i].position[axis]
    ELSE EulerStep(mode.last.particles[i].position[axis],
                   TickVector(i).arr[ComponentOf(axis)], mode.last.deltaTime)

\* C15: after ParticleMode.render and after every update(dt) tick, each
\* particle's coordinate on each axis of the bounds box lies within
\* [bounds.min, bounds.max]; a tick puts a coordinate that the Euler step
\* moved above max at min and one moved below min at max, each axis on its
\* own, and leaves z as the step put it when the box has no z.
C15_ParticlesStayInBounds ==
    (mode.constructed /\ mode.kind = "particles") =>
        /\ \A i \in 1..Len(mode.particles) : \A axis \in DOMAIN vf.bounds.min :
               Within(mode.particles[i].position[axis],
                      vf.bounds.min[axis], vf.bounds.max[axis])
        /\ mode.last.op = "update" =>
               \A i \in 1..Len(mode.particles) : \A axis \in {"x", "y", "z"} :
               \A stepped \in {SteppedTo(i, axis)} :
                   mode.particles[i].position[axis] =
                       IF axis \notin DOMAIN vf.bounds.min THEN stepped
                       ELSE IF NumLess(vf.bounds.max[axis], stepped)
                            THEN vf.bounds.min[axis]
                       ELSE IF NumLess(stepped, vf.bounds.min[axis])
                            THEN vf.bounds.max[axis]
                       ELSE stepped

\* A tick in which one particle stepped above max and came out at min and
\* another stepped below min and came out at max.
C15_Witness ==
    /\ mode.constructed /\ mode.kind = "particles" /\ mode.last.op = "update"
    /\ \E i, j \in 1..Len(mode.particles) : \E axis \in DOMAIN vf.bounds.min :
          /\ NumLess(vf.bounds.max[axis], SteppedTo(i, axis))
          /\ mode.particles[i].position[axis] = vf.bounds.min[axis]
          /\ NumLess(SteppedTo(j, axis), vf.bounds.min[axis])
          /\ mode.particles[j].position[axis] = vf.bounds.max[axis]

RecognizedKeys == {"color", "scale", "density", "opacity"}

\* C16: updateStyle(c) changes the configuration only on the recognized
\* keys color, scale, density and opacity that c has: a key c lacks keeps
\* its prior value, and a key of c outside the recognized set neither
\* appears in the configuration nor alters it.
C16_UpdateStyleRecognizedKeysOnly ==
    (mode.constructed /\ mode.last.op = "updateStyle") =>
        /\ DOMAIN mode.config = DOMAIN mode.last.before
        /\ \A k \in DOMAIN mode.config :
               mode.config[k] =
                   IF k \in RecognizedKeys /\ k \in DOMAIN mode.last.given
                   THEN mode.last.given[k]
                   ELSE mode.last.before[k]

\* The render() call that constructed a mesh.
RenderOfMesh(id) == id[1]

\* C18: for each mode, after any sequence of render() calls the mode's mesh
\* list and the scene manager's mesh list hold only geometry that the latest
\* render() created, and after clear() or dispose() the mode's list is empty
\* and none of its meshes is left in the scene manager.
C18_OnlyLatestRenderRemains ==
    mode.constructed =>
        /\ \A n \in 1..Len(mode.meshes) : RenderOfMesh(mode.meshes[n]) = mode.renders
        /\ \A n \in 1..Len(scene.meshes) : RenderOfMesh(scene.meshes[n]) = mode.renders
        /\ mode.last.op \in {"clear", "dispose"} =>
               mode.meshes = <<>> /\ scene.meshes = <<>>

\* A second render() has just replaced the geometry of the first.
C18_Witness ==
    /\ mode.constructed /\ mode.last.op = "render" /\ mode.renders = 2
    /\ mode.meshes # <<>>
    /\ scene.meshes = mode.meshes

----------------------------------------------------------------------------
\* FunctionParser.testFunction as a process: a call with an evaluator and a
\* dimension, then its return.

\* The test point with every axis at v, but x at vx.
TestPoint(dimension, vx, v) ==
    IF dimension = 2 THEN [x |-> vx, y |-> v] ELSE [x |-> vx, y |-> v, z |-> v]

TestPoints(dimension) ==
    <<TestPoint(dimension, I(0), I(0)),
      TestPoint(dimension, I(1), I(1)),
      TestPoint(dimension, I(-1), I(1)),
      TestPoint(dimension, Num(1, 2), Num(1, 2))>>

PointValidAnyLength(func, dimension, point) ==
    LET result == CallFunc(func, point, EmptyObject)
    IN  /\ result.kind = "array"
        /\ \A i \in 1..Len(result.arr) : NumberIsFinite(result.arr[i])

\* result && result.length === dimension && result.every(Number.isFinite)
PointValid(func, dimension, point) ==
    LET result == CallFunc(func, point, EmptyObject)
    IN  /\ result.kind = "array"
        /\ Len(result.arr) = dimension
        /\ \A i \in 1..Len(result.arr) : NumberIsFinite(result.arr[i])

TestResult(success, error, testedPoints, validPoints) ==
    [success |-> success, error |-> error, testedPoints |-> testedPoints,
     validPoints |-> validPoints]

\* FunctionParser.testFunction
testFunction(func, dimension) ==
    IF func = NullFunc THEN TestResult(FALSE, "No function provided", 0, 0)
    ELSE LET testPoints == TestPoints(dimension)
             validCount == Cardinality({n \in 1..Len(testPoints) :
                                           PointValid(func, dimension, testPoints[n])})
         IN  IF validCount = 0
             THEN TestResult(FALSE, "Function produces invalid results",
                             Len(testPoints), 0)
             ELSE TestResult(TRUE, "null", Len(testPoints), validCount)

\* Components of the evaluators tested: finite everywhere, infinite at
\* x = 0, finite only off x = 0, 1 and -1, infinite everywhere, and one
\* whose evaluation throws (w is not in the scope).
TestComponents ==
    {Op("add", <<Sym("x"), Sym("y")>>),
     Op("divide", <<Const(1), Sym("x")>>),
     Op("divide", <<Const(1),
          Op("multiply", <<Sym("x"),
               Op("multiply", <<Op("subtract", <<Sym("x"), Const(1)>>),
                                Op("add", <<Sym("x"), Const(1)>>)>>)>>)>>),
     Op("divide", <<Const(1), Const(0)>>),
     Sym("w")}

\* The evaluators handed to testFunction: none, closures of parse with one
\* to three components, and functions returning something else.
TestEvaluators ==
    {NullFunc}
        \cup {Compiled(cs) : cs \in UNION {[1..n -> TestComponents] : n \in 1..3}}
        \cup {Foreign(k) : k \in {"returnsNull", "returnsNumber", "returnsString"}}

NoTest == TestResult(FALSE, "none", 0, 0)

InitTest ==
    /\ vf = NewVectorField(2, Compiled(FieldComps("rotation", 2)))
    /\ heap = [o \in {EngineObject} |-> EmptyObject]
    /\ ret = NoCall
    /\ rk = RkIdle
    /\ \E func \in TestEvaluators, dimension \in Dimensions :
          ps = [pc |-> "called", func |-> func, dimension |-> dimension,
                test |-> NoTest]
    /\ NoApp

TestFunction ==
    /\ ps.pc = "called"
    /\ ps' = [ps EXCEPT !.pc = "returned",
                        !.test = testFunction(ps.func, ps.dimension)]
    /\ UNCHANGED <<vf, heap, ret, rk, appVars>>

NextTest == TestFunction

SpecTest == InitTest /\ [][NextTest]_vars

\* The four canonical points: the origin, all ones, (-1, 1[, 1]), all 0.5.
CanonicalPoints(dimension) ==
    LET axes == IF dimension = 2 THEN {"x", "y"} ELSE {"x", "y", "z"}
    IN  {[a \in axes |-> v] : v \in {I(0), I(1), Num(1, 2)}}
            \cup {[a \in axes |-> IF a = "x" THEN I(-1) ELSE I(1)]}

\* The evaluator's result at a point is non-null, has dimension entries, and
\* all of them are finite.
YieldsValid(func, dimension, point) ==
    \A result \in {CallFunc(func, point, EmptyObject)} :
        /\ result.kind = "array"
        /\ Len(result.arr) = dimension
        /\ \A i \in 1..dimension : result.arr[i].d > 0

\* C19: testFunction(evaluator, dimension) returns success = true exactly
\* when at least one of the four canonical points yields a non-null result
\* of length dimension with finite entries, and success = false with an
\* error when the evaluator is null or all four points are invalid.
C19_TestFunctionSuccessIffSomePointValid ==
    ps.pc = "returned" =>
        \A someValid \in {/\ ps.func # NullFunc
                           /\ \E point \in CanonicalPoints(ps.dimension) :
                                 YieldsValid(ps.func, ps.dimension, point)} :
            /\ ps.test.success <=> someValid
            /\ ~someValid => ~ps.test.success /\ ps.test.error \notin {"null", "none"}
            /\ someValid => ps.test.error = "null"

\* An evaluator that is invalid at some canonical points and valid at
\* another has passed the test.
C19_Witness ==
    /\ ps.pc = "returned" /\ ps.func # NullFunc /\ ps.test.success
    /\ \E point \in CanonicalPoints(ps.dimension) :
          ~YieldsValid(ps.func, ps.dimension, point)
    /\ ps.test.validPoints = 1

----------------------------------------------------------------------------
\* UIController: the function box (setCustomFunction) and the dimension
\* toggle.  The application's field, app.vectorField, is vf.

\* state.function and the field at start: '[-y, x]' in two dimensions.
InitialFunction == <<"[", "-", "y", ",", " ", "x", "]">>

\* Components typed into the function box: x, z, a conditional on w (which
\* parses and then cannot be evaluated), and an unfinished sum.
UIComponents ==
    {<<"x">>, <<"z">>, <<"x", "+", "w">>,
     <<"w", ">", "0", "?", "x", ":", "y">>, <<"x", "+">>}

RECURSIVE JoinWith(_, _)
JoinWith(texts, separator) ==
    IF Len(texts) = 0 THEN <<>>
    ELSE IF Len(texts) = 1 THEN texts[1]
    ELSE texts[1] \o separator \o JoinWith(Tail(texts), separator)

\* What setCustomFunction is given: bracketed lists of two or three
\* components, and one text without its opening bracket.
UIFormulas ==
    {<<"[">> \o JoinWith(cs, <<",">>) \o <<"]">> :
        cs \in UNION {[1..n -> UIComponents] : n \in 2..3}}
        \cup {<<"x", ",", "x", "]">>}

\* state.parameters is an object of the heap: updateVisualization hands it
\* to setParameters.
StateParameters == CallerObject

\* UIController.createParameterSliders: the sliders shown and
\* state.parameters afterwards.
createParameterSliders(sliders, parameters, variables) ==
    LET customvars == SelectSeq(variables, LAMBDA v : v \notin {"x", "y", "z"})
    IN  IF Len(customvars) = 0
        THEN [sliders |-> sliders, parameters |-> parameters]
        ELSE [sliders |-> Range(customvars),
              parameters |-> Merge(parameters, [v \in Range(customvars) |-> I(1)])]

\* UIController.updateVisualization, as far as the field's parameters go:
\* setParameters is called when state.parameters has a key.
updateVisualization(h) ==
    IF DOMAIN h[StateParameters] # {}
    THEN [heap |-> setParameters(h, StateParameters).heap, setParametersCalled |-> TRUE]
    ELSE [heap |-> h, setParametersCalled |-> FALSE]

NoUICall ==
    [op |-> "none", funcString |-> <<>>, function |-> <<>>,
     functionVariables |-> <<>>, vectorField |-> NotConstructed,
     rendered |-> FALSE, setParametersCalled |-> FALSE]

InitUI ==
    /\ vf = NewVectorField(2, parse(InitialFunction, 2).func)
    /\ heap = [o \in {EngineObject, StateParameters} |-> EmptyObject]
    /\ ret = NoCall
    /\ rk = RkIdle
    /\ ps = PsIdle
    /\ ui = [constructed |-> TRUE, dimension |-> 2, function |-> InitialFunction,
             functionVariables |-> <<"x", "y">>, sliders |-> {},
             error |-> "", last |-> NoUICall]
    /\ view = NotConstructed
    /\ mode = NotConstructed
    /\ scene = NotConstructed
    /\ viz = NotConstructed
    /\ app = NotConstructed

\* What the call found the application in.
UICall(op, funcString) ==
    [NoUICall EXCEPT !.op = op, !.funcString = funcString,
                     !.function = ui.function,
                     !.functionVariables = ui.functionVariables,
                     !.vectorField = vf]

AcceptedUntested(result, test) == result.error = NoError

\* Neither return before "// Success" is taken.
Accepted(result, test) == result.error = NoError /\ test.success

\* The text the error element shows.
ErrorText(result, test) ==
    IF result.error # NoError THEN "parse error"
    ELSE IF ~test.success THEN "Function produces invalid results"
    ELSE ""

\* UIController.setCustomFunction
SetCustomFunction(funcString) ==
    /\ ui.last.op = "none"
    /\ \E result \in {parse(funcString, ui.dimension)} :
       \E test \in {testFunction(result.func, ui.dimension)} :
          IF Accepted(result, test)
          THEN \E made \in {createParameterSliders(ui.sliders, heap[StateParameters],
                                                    result.variables)} :
               \E shown \in {updateVisualization(
                                 [heap EXCEPT ![EngineObject] = EmptyObject,
                                              ![StateParameters] = made.parameters])} :
               /\ ui' = [ui EXCEPT
                            !.function = funcString,
                            !.functionVariables = result.variables,
                            !.sliders = made.sliders,
                            !.error = "",
                            !.last = [UICall("setCustomFunction", funcString)
                                         EXCEPT !.rendered = TRUE,
                                                !.setParametersCalled =
                                                    shown.setParametersCalled]]
               /\ vf' = NewVectorField(ui.dimension, result.func)
               /\ heap' = shown.heap
          ELSE /\ ui' = [ui EXCEPT
                            !.error = ErrorText(result, test),
                            !.last = UICall("setCustomFunction", funcString)]
               /\ vf' = vf
               /\ heap' = heap
    /\ UNCHANGED <<ret, rk, ps, view, mode, scene, viz, app>>

\* UIController.toggleDimension: the field stays, the scene is redrawn.
ToggleDimension ==
    /\ ui.last.op = "none"
    /\ \E shown \in {updateVisualization(heap)} :
          /\ ui' = [ui EXCEPT !.dimension = IF ui.dimension = 2 THEN 3 ELSE 2,
                              !.last = [UICall("toggleDimension", <<>>)
                                           EXCEPT !.rendered = TRUE,
                                                  !.setParametersCalled =
                                                      shown.setParametersCalled]]
          /\ heap' = shown.heap
    /\ UNCHANGED <<vf, ret, rk, ps, view, mode, scene, viz, app>>

\* The handler has returned.
UIReturn ==
    /\ ui.last.op # "none"
    /\ ui' = [ui EXCEPT !.last = NoUICall]
    /\ UNCHANGED <<vf, heap, ret, rk, ps, view, mode, scene, viz, app>>

NextUI ==
    \/ \E funcString \in UIFormulas : SetCustomFunction(funcString)
    \/ ToggleDimension
    \/ UIReturn

SpecUI == InitUI /\ [][NextUI]_vars

\* The formula of the last setCustomFunction call is one the parser reports
\* an error for, or one whose evaluator fails testFunction.
Rejected ==
    \A result \in {parse(ui.last.funcString, ui.dimension)} :
        \/ result.error # NoError
        \/ ~testFunction(result.func, ui.dimension).success

\* C17: when setCustomFunction is given a formula for which parse returns
\* an error or testFunction fails, app.vectorField, state.function and
\* state.functionVariables stay as they were and nothing is re-rendered;
\* the field is replaced only by a formula that parses and passes
\* testFunction.
C17_RejectedFormulaKeepsActiveField ==
    (ui.constructed /\ ui.last.op = "setCustomFunction") =>
        /\ Rejected =>
               /\ vf = ui.last.vectorField
               /\ ui.function = ui.last.function
               /\ ui.functionVariables = ui.last.functionVariables
               /\ ~ui.last.rendered
        /\ ~Rejected =>
               /\ vf.func = parse(ui.last.funcString, ui.dimension).func
               /\ ui.function = ui.last.funcString

\* After an earlier formula was accepted, a formula that parses but fails
\* testFunction was entered, and the field stayed.
C17_Witness ==
    /\ ui.constructed /\ ui.last.op = "setCustomFunction"
    /\ ui.function # InitialFunction
    /\ parse(ui.last.funcString, ui.dimension).error = NoError
    /\ Rejected
    /\ vf = ui.last.vectorField

----------------------------------------------------------------------------
\* VectorFieldVisualizer (the canvas view): the field selector, the formula
\* panel and getVectorAtPoint.  viz.executed are the texts that were made
\* into a host function and run, each with whether the user typed it;
\* viz.title is document.title, which host code can reach.

DefaultFormulas ==
    [vx |-> [text |-> "x * 0.01 + y * 0.005", typed |-> FALSE],
     vy |-> [text |-> "-y * 0.01 + x * 0.005", typed |-> FALSE]]

\* What the user types into the formula panel: arithmetic, an unfinished
\* sum, and a text that is a statement-bearing JavaScript expression.
TypedFormulas == {"x", "x +", "(document.title = 'run', 1)"}

FieldTypes == {"gradient", "circular", "saddle", "custom", "other"}

\* Function(...names, 'x', 'y', `return ${text}`)(...values, x, y): the
\* JavaScript engine compiles the text and runs it.  threw: the text is not
\* a JavaScript expression; title: document.title after the run.
HostFunction(text, x, y, title) ==
    CASE text = "x" -> [threw |-> FALSE, value |-> x, title |-> title]
      [] text = "x * 0.01 + y * 0.005" ->
            [threw |-> FALSE, title |-> title,
             value |-> NumAdd(NumMul(x, Num(1, 100)), NumMul(y, Num(5, 1000)))]
      [] text = "-y * 0.01 + x * 0.005" ->
            [threw |-> FALSE, title |-> title,
             value |-> NumAdd(NumMul(NumNeg(y), Num(1, 100)), NumMul(x, Num(5, 1000)))]
      [] text = "(document.title = 'run', 1)" ->
            [threw |-> FALSE, value |-> I(1), title |-> "run"]
      [] OTHER -> [threw |-> TRUE, value |-> NaN, title |-> title]

\* VectorFieldVisualizer.evaluateCustomFormula
evaluateCustomFormula(this, x, y) ==
    LET vx == HostFunction(this.customFormulas.vx.text, x, y, this.title)
        vy == HostFunction(this.customFormulas.vy.text, x, y, vx.title)
    IN  IF vx.threw
        THEN [this EXCEPT !.vector = [x |-> I(0), y |-> I(0)]]
        ELSE IF vy.threw
        THEN [this EXCEPT !.vector = [x |-> I(0), y |-> I(0)],
                          !.executed = @ \cup {this.customFormulas.vx},
                          !.title = vx.title]
        ELSE [this EXCEPT !.vector = [x |-> OrElse(vx.value, I(0)),
                                      y |-> OrElse(vy.value, I(0))],
                          !.executed = @ \cup {this.customFormulas.vx,
                                               this.customFormulas.vy},
                          !.title = vy.title]

\* VectorFieldVisualizer.getVectorAtPoint
getVectorAtPoint(this, x, y) ==
    CASE this.fieldType = "gradient" ->
            [this EXCEPT !.vector = [x |-> NumMul(I(2), x), y |-> NumMul(I(2), y)]]
      [] this.fieldType = "circular" ->
            [this EXCEPT !.vector = [x |-> NumMul(NumNeg(y), Num(2, 100)),
                                     y |-> NumMul(x, Num(2, 100))]]
      [] this.fieldType = "saddle" ->
            [this EXCEPT !.vector = [x |-> NumMul(x, Num(2, 100)),
                                     y |-> NumMul(NumNeg(y), Num(2, 100))]]
      [] this.fieldType = "custom" -> evaluateCustomFormula(this, x, y)
      [] OTHER -> [this EXCEPT !.vector = [x |-> I(0), y |-> I(0)]]

InitViz ==
    /\ vf = NewVectorField(2, Compiled(FieldComps("rotation", 2)))
    /\ heap = [o \in {EngineObject} |-> EmptyObject]
    /\ ret = NoCall
    /\ rk = RkIdle
    /\ ps = PsIdle
    /\ viz = [constructed |-> TRUE, fieldType |-> "gradient",
              customFormulas |-> DefaultFormulas, executed |-> {},
              title |-> "", vector |-> [x |-> I(0), y |-> I(0)]]
    /\ view = NotConstructed
    /\ mode = NotConstructed
    /\ scene = NotConstructed
    /\ ui = NotConstructed
    /\ app = NotConstructed

\* The change handler of the field selector.
SelectField(fieldType) ==
    /\ viz' = [viz EXCEPT !.fieldType = fieldType]
    /\ UNCHANGED <<vf, heap, ret, rk, ps, view, mode, scene, ui, app>>

\* VectorFieldVisualizer.applyCustomFormula: the texts of the two inputs.
ApplyCustomFormula(vx, vy) ==
    /\ viz' = [viz EXCEPT !.customFormulas = [vx |-> [text |-> vx, typed |-> TRUE],
                                              vy |-> [text |-> vy, typed |-> TRUE]]]
    /\ UNCHANGED <<vf, heap, ret, rk, ps, view, mode, scene, ui, app>>

\* getVectorAtPoint(x, y), as drawing and the mouse handler call it.
GetVectorAtPoint(x, y) ==
    /\ viz' = getVectorAtPoint(viz, x, y)
    /\ UNCHANGED <<vf, heap, ret, rk, ps, view, mode, scene, ui, app>>

NextViz ==
    \/ \E fieldType \in FieldTypes : SelectField(fieldType)
    \/ \E vx, vy \in TypedFormulas : ApplyCustomFormula(vx, vy)
    \/ \E x, y \in Coord : GetVectorAtPoint(x, y)

SpecViz == InitViz /\ [][NextViz]_vars

\* C20: no path from formula text the user supplied to a field value makes
\* host-language code of that text and runs it: no text the user typed is
\* among the texts compiled and executed as JavaScript, and evaluating a
\* field has no effect on the page.
C20_NoHostCodeFromFormulaText ==
    viz.constructed =>
        /\ \A formula \in viz.executed : ~formula.typed
        /\ viz.title = ""

----------------------------------------------------------------------------
\* integrateRK4 with its default number of steps on the default field of
\* the application, the rotation parsed from '[-y, x]'.

\* integrateRK4(startPos, steps = 100, ...)
DefaultSteps == 100

CircleSeeds == {[x |-> I(1), y |-> I(0)], [x |-> I(0), y |-> I(1)]}

CircleDt == Num(5, 100)

InitCircle ==
    /\ vf = NewVectorField(2, parse(InitialFunction, 2).func)
    /\ heap = [o \in {EngineObject} |-> EmptyObject]
    /\ ret = NoCall
    /\ rk = RkIdle
    /\ ps = PsIdle
    /\ NoApp

\* The loop condition holds: the next stage of the iteration.
LoopStage ==
    /\ rk.pc = "loop"
    /\ rk.i < rk.steps
    /\ rk' = StageOrStay(vf, heap[vf.params], rk)
    /\ UNCHANGED <<vf, heap, ret, ps, appVars>>

NextCircle ==
    \/ \E startPos \in CircleSeeds : IntegrateCall(startPos, DefaultSteps, CircleDt)
    \/ LoopStage
    \/ IntegrateReturn
    \/ IntegrateDone

SpecCircle == InitCircle /\ [][NextCircle]_vars

\* sqrt(x^2 + y^2) is within 1/100 of 1: x^2 + y^2 lies between 0.99^2
\* and 1.01^2.
NearUnitCircle(point) ==
    \A r2 \in {NumAdd(NumMul(point.x, point.x), NumMul(point.y, point.y))} :
        ~NumLess(r2, Num(99 * 99, 10000)) /\ ~NumLess(Num(101 * 101, 10000), r2)

\* C21: for the field parsed from "[-y, x]" in dimension 2,
\* integrateRK4({x: 1, y: 0}, 100, 0.05) returns a path of 101 points, each
\* within 0.01 of distance 1 from the origin.
C21_RotationPathStaysOnUnitCircle ==
    (rk.pc = "done" /\ rk.steps = DefaultSteps /\ rk.dt = CircleDt
        /\ rk.seed \in CircleSeeds) =>
        /\ Len(rk.path) = DefaultSteps + 1
        /\ \A n \in 1..Len(rk.path) : NearUnitCircle(rk.path[n])

\* The call on {x: 1, y: 0} has returned its path.
C21_Witness ==
    /\ rk.pc = "done" /\ rk.steps = 100 /\ rk.dt = Num(1, 20)
    /\ rk.seed = [x |-> I(1), y |-> I(0)]
    /\ vf.func = Compiled(<<Op("unaryMinus", <<Sym("y")>>), Sym("x")>>)
    /\ Len(rk.path) = 101
    /\ rk.evals = 400

----------------------------------------------------------------------------
\* The scope of an evaluation: evaluateAt with stored and override bindings
\* whose names may be those of a coordinate or of a constant.

\* Fields that read the coordinates, the constants, and a parameter.
ScopeComps(name, k) ==
    LET two == CASE name = "axes" -> <<Sym("x"), Sym("y")>>
                 [] name = "constants" -> <<Sym("pi"), Sym("e")>>
                 [] OTHER -> <<Op("multiply", <<Sym("a"), Sym("x")>>), Sym("y")>>
    IN  IF k = 2 THEN two ELSE Append(two, Sym("z"))

ScopeBindings == {EmptyObject, [a |-> I(2)], [x |-> I(5)], [pi |-> I(3)]}

ScopePositions(dimension) ==
    IF dimension = 2
    THEN {[x |-> I(1), y |-> I(0)], [x |-> I(0), y |-> I(1)]}
    ELSE {[x |-> I(1), y |-> I(0), z |-> I(1)], [x |-> I(0), y |-> I(1), z |-> I(1)]}

InitScope ==
    /\ \E dimension \in Dimensions : \E name \in {"axes", "constants", "scaled"} :
          vf = NewVectorField(dimension, Compiled(ScopeComps(name, dimension)))
    /\ heap = [o \in {EngineObject, CallerObject} |-> EmptyObject]
    /\ ret = NoCall
    /\ rk = RkIdle
    /\ ps = PsIdle
    /\ NoApp

NextScope ==
    \/ \E b \in ScopeBindings : CallerWrites(b)
    \/ SetParameters
    \/ \E position \in ScopePositions(vf.dimension), params \in ScopeBindings :
          EvaluateAt(position, params)
    \/ Continue

SpecScope == InitScope /\ [][NextScope]_vars

\* The scope the components are to be computed in: every parameter name
\* bound to its value, then the coordinate symbols bound to the position's
\* values, then pi and e bound to the constants, so that neither a
\* coordinate nor a constant is replaced by a binding.
ProtectedScope(position, bindings) ==
    [name \in DOMAIN bindings \cup DOMAIN position \cup {"pi", "e"} |->
        IF name = "pi" THEN MathPI
        ELSE IF name = "e" THEN MathE
        ELSE IF name \in DOMAIN position THEN position[name]
        ELSE bindings[name]]

\* C22: for every position and every binding map, stored or override, the
\* evaluator computes each component with x, y (and z) bound to the
\* position's values, every parameter name bound to its value, and pi and e
\* bound to the constants; no binding replaces a coordinate or pi or e.
C22_ScopeProtectsCoordinatesAndConstants ==
    ret.op = "evaluateAt" =>
        \A vals \in {[i \in 1..vf.dimension |->
                        MathEvaluate(vf.func.comps[i],
                                     ProtectedScope(ret.position, ret.merged))]} :
            IF \E i \in 1..vf.dimension : ~vals[i].ok \/ ~NumberIsFinite(ToNumber(vals[i].v))
            THEN ret.result.isNull
            ELSE /\ ~ret.result.isNull
                 /\ ret.result.arr = [i \in 1..vf.dimension |-> ToNumber(vals[i].v)]

----------------------------------------------------------------------------
\* Claims about the formula's variables in the interface.

\* The names are in strictly increasing order: sorted, none twice.
StrictlySorted(names) ==
    \A i \in 1..Len(names) : \A j \in 1..Len(names) :
        i < j => NameRank(names[i]) < NameRank(names[j])

\* C23: in every state the interface reaches, a parse that succeeds reports
\* variables that are sorted, duplicate-free and among x, y (2D) or x, y, z
\* (3D); so no parameter slider exists, state.parameters is empty, and
\* updateVisualization has not called setParameters.
C23_NoParametersReachTheInterface ==
    ui.constructed =>
        /\ ui.last.op = "setCustomFunction" =>
               \A result \in {parse(ui.last.funcString, ui.dimension)} :
                   result.error = NoError =>
                       /\ StrictlySorted(result.variables)
                       /\ Range(result.variables) \subseteq Range(validVars(ui.dimension))
        /\ ui.sliders = {}
        /\ heap[StateParameters] = EmptyObject
        /\ ~ui.last.setParametersCalled

\* In 3D a formula over x and z was accepted and drawn.
C23_Witness ==
    /\ ui.constructed /\ ui.last.op = "setCustomFunction" /\ ui.last.rendered
    /\ ui.dimension = 3
    /\ ui.functionVariables = <<"x", "z">>
    /\ ui.function = ui.last.funcString
    /\ ui.sliders = {}

----------------------------------------------------------------------------
\* RenderEngine: the render loop, the animation frames the browser holds
\* for it, and the mode the interface draws.

MaxFrames == 4

\* new RenderEngine(sceneManager); 0 stands for null.
NewRenderEngine == [isRunning |-> FALSE, animationFrameId |-> 0, visualizationMode |-> 0]

NoEngineCall ==
    [op |-> "none", wasRunning |-> FALSE, pending |-> {}, updated |-> 0, drawn |-> FALSE]

\* new ModeClass(vectorField, sceneManager) followed by render(): the id-th
\* mode object the interface made.
NewMode(kind, id) == [constructed |-> TRUE, kind |-> kind, id |-> id, ticks |-> 0]

\* RenderEngine.animate.  The mode the engine holds is updated, then the
\* scene is drawn, then the next frame is requested; only a ParticleMode's
\* update changes it.  updated is the mode update was called on (0: none).
animate(a, m) ==
    IF ~a.renderEngine.isRunning
    THEN [app |-> a, mode |-> m, updated |-> 0, drawn |-> FALSE]
    ELSE LET target == a.renderEngine.visualizationMode
             id == a.requested + 1
         IN  [app |-> [a EXCEPT !.renderEngine.animationFrameId = id,
                                !.pending = @ \cup {id},
                                !.requested = id],
              mode |-> IF target # 0 /\ target = m.id /\ m.kind = "particles"
                       THEN [m EXCEPT !.ticks = @ + 1] ELSE m,
              updated |-> target,
              drawn |-> TRUE]

\* The state init() leaves: the loop started, its first frame drawn and the
\* next one requested, the default mode rendered by updateVisualization.
InitLoop ==
    /\ vf = NewVectorField(2, parse(InitialFunction, 2).func)
    /\ heap = [o \in {EngineObject} |-> EmptyObject]
    /\ ret = NoCall
    /\ rk = RkIdle
    /\ ps = PsIdle
    /\ view = NotConstructed
    /\ viz = NotConstructed
    /\ scene = [constructed |-> TRUE, meshes |-> <<>>]
    /\ ui = [constructed |-> TRUE, mode |-> "arrows"]
    /\ mode = NewMode("arrows", 1)
    /\ app = [constructed |-> TRUE,
              renderEngine |-> [NewRenderEngine EXCEPT !.isRunning = TRUE,
                                                       !.animationFrameId = 1],
              pending |-> {1}, requested |-> 1,
              stopped |-> FALSE, workedSinceStop |-> FALSE,
              last |-> NoEngineCall]

stopKeepsFrame(a) ==
    [a EXCEPT !.renderEngine.isRunning = FALSE,
              !.renderEngine.animationFrameId = 0]

\* RenderEngine.stop: cancelAnimationFrame takes the frame from the browser.
stop(a) ==
    [a EXCEPT !.renderEngine.isRunning = FALSE,
              !.renderEngine.animationFrameId = 0,
              !.pending = @ \ {a.renderEngine.animationFrameId}]

\* RenderEngine.start
Start ==
    /\ app.requested < MaxFrames
    /\ IF app.renderEngine.isRunning
       THEN /\ app' = [app EXCEPT !.last = [NoEngineCall EXCEPT !.op = "start",
                                                                !.wasRunning = TRUE,
                                                                !.pending = app.pending]]
            /\ mode' = mode
       ELSE \E out \in {animate([app EXCEPT !.renderEngine.isRunning = TRUE,
                                            !.stopped = FALSE], mode)} :
            /\ app' = [out.app EXCEPT !.last = [NoEngineCall EXCEPT !.op = "start",
                                                                    !.pending = app.pending,
                                                                    !.updated = out.updated,
                                                                    !.drawn = out.drawn]]
            /\ mode' = out.mode
    /\ UNCHANGED <<vf, heap, ret, rk, ps, view, scene, ui, viz>>

Stop ==
    /\ app' = [stop(app) EXCEPT !.stopped = TRUE,
                                !.workedSinceStop = FALSE,
                                !.last = [NoEngineCall EXCEPT !.op = "stop",
                                             !.wasRunning = app.renderEngine.isRunning,
                                             !.pending = app.pending]]
    /\ UNCHANGED <<vf, heap, ret, rk, ps, view, mode, scene, ui, viz>>

\* The browser runs a frame callback it holds.
Frame(id) ==
    /\ id \in app.pending
    /\ app.requested < MaxFrames
    /\ \E out \in {animate([app EXCEPT !.pending = @ \ {id}], mode)} :
          /\ app' = [out.app EXCEPT
                         !.workedSinceStop = @ \/ (app.stopped /\ out.drawn),
                         !.last = [NoEngineCall EXCEPT !.op = "animate",
                                      !.wasRunning = app.renderEngine.isRunning,
                                      !.pending = app.pending,
                                      !.updated = out.updated,
                                      !.drawn = out.drawn]]
          /\ mode' = out.mode
    /\ UNCHANGED <<vf, heap, ret, rk, ps, view, scene, ui, viz>>

\* UIController.setVisualizationMode: state.mode is set and
\* updateVisualization clears the scene, makes a mode of that kind and
\* renders it.  The engine is not told of the new mode.
SetVisualizationMode(kind) ==
    /\ mode.id <= MaxRenders
    /\ ui' = [ui EXCEPT !.mode = kind]
    /\ mode' = NewMode(kind, mode.id + 1)
    /\ scene' = clearMeshes(scene)
    /\ UNCHANGED <<vf, heap, ret, rk, ps, view, viz, app>>

NextLoop ==
    \/ Start
    \/ Stop
    \/ \E id \in 1..MaxFrames : Frame(id)
    \/ \E kind \in ModeKinds : SetVisualizationMode(kind)

SpecLoop == InitLoop /\ [][NextLoop]_vars

\* C24: while the loop runs and the interface's mode is 'particles', every
\* frame tick calls update on the particle mode that was last rendered,
\* before the scene is drawn; a mode without time-dependent state is never
\* changed by a tick.
C24_TickUpdatesRenderedParticleMode ==
    app.constructed =>
        /\ (app.last.drawn /\ ui.mode = "particles") =>
               app.last.updated = mode.id /\ mode.kind = "particles"
        /\ mode.kind # "particles" => mode.ticks = 0

\* C30: whatever the order of start(), stop() and frame callbacks, at most
\* one frame callback is pending, a start() while running schedules
\* nothing, and between a stop() and the next start() nothing is updated
\* or drawn.
C30_OneFramePendingAndNoWorkWhileStopped ==
    app.constructed =>
        /\ Cardinality(app.pending) <= 1
        /\ (app.last.op = "start" /\ app.last.wasRunning) =>
               app.pending = app.last.pending /\ ~app.last.drawn
        /\ ~app.workedSinceStop
        /\ ~app.renderEngine.isRunning => ~app.last.drawn

\* The loop was stopped and started again: the restart drew a frame and
\* holds exactly one callback, a later one than the first.
C30_Witness ==
    /\ app.constructed /\ app.last.op = "start" /\ ~app.last.wasRunning
    /\ app.last.drawn /\ app.last.pending = {}
    /\ app.requested >= 2
    /\ app.pending = {app.requested}

----------------------------------------------------------------------------
\* Termination of integrateRK4.  The call runs to completion on the
\* JavaScript thread: once entered, its loop keeps taking steps.
NextRK4Live ==
    \/ \E startPos \in Seeds(vf.dimension), steps \in 0..MaxSteps, dt \in DtValues :
          IntegrateCall(startPos, steps, dt)
    \/ LoopStage
    \/ IntegrateReturn
    \/ IntegrateDone

\* The loop has a further stage to evaluate; LoopStage is then enabled, and
\* it changes the activation (evals grows).
StagePending == rk.pc = "loop" /\ rk.i < rk.steps

\* Weak fairness of the two steps of the loop; for LoopStage it is written
\* with the enabling condition spelled out.
SpecRK4Live ==
    /\ InitRK4
    /\ [][NextRK4Live]_vars
    /\ ([]<>(~StagePending) \/ []<><<LoopStage>>_vars)
    /\ WF_vars(IntegrateReturn)

IntegrateBounded ==
    rk.pc # "idle" =>
        /\ rk.i <= rk.steps
        /\ rk.evals <= 4 * rk.steps
        /\ Len(rk.path) = rk.i + 1

\* C25: every call of integrateRK4 returns, after at most steps iterations
\* of its loop and at most 4*steps evaluations of the field, whether the
\* field is Invalid everywhere or nowhere, and for every steps >= 0.
C25_IntegrateTerminatesWithinSteps ==
    /\ []IntegrateBounded
    /\ (rk.pc = "loop") ~> (rk.pc = "done")

\* A call on a field that is never Invalid ran all its steps.
C25_Witness ==
    /\ rk.pc = "done" /\ rk.steps = MaxSteps
    /\ rk.i = rk.steps /\ rk.evals = 4 * rk.steps
    /\ vf.func = Compiled(FieldComps("constant", vf.dimension))

----------------------------------------------------------------------------
\* C26: when a dimension-2 field is integrated from a seed that carries a
\* further axis z, every point of the path has exactly the axes of the seed
\* and the seed's value on z.
C26_ExtraAxisCarriedAlongPath ==
    (rk.pc # "idle" /\ vf.dimension = 2 /\ "z" \in DOMAIN rk.seed) =>
        \A n \in 1..Len(rk.path) :
            /\ DOMAIN rk.path[n] = DOMAIN rk.seed
            /\ rk.path[n].z = rk.seed.z

\* A full path from a seed with a z axis through a 2D field.
C26_Witness ==
    /\ rk.pc = "done" /\ vf.dimension = 2
    /\ DOMAIN rk.seed = {"x", "y", "z"}
    /\ rk.steps = MaxSteps
    /\ Len(rk.path) = rk.steps + 1

----------------------------------------------------------------------------
\* Formulas that name the constants pi and e.

ConstantTexts == {<<"x">>, <<"y">>, <<"e">>, <<"p", "i", "*", "x">>}

ConstantInputs ==
    {<<"[">> \o Join(cs) \o <<"]">> :
        cs \in UNION {[1..n -> ConstantTexts] : n \in 2..3}}

InitConstants ==
    /\ vf = NewVectorField(2, Compiled(FieldComps("rotation", 2)))
    /\ heap = [o \in {EngineObject} |-> EmptyObject]
    /\ ret = NoCall
    /\ rk = RkIdle
    /\ \E expression \in ConstantInputs, dimension \in Dimensions :
          ps = [pc |-> "called", expression |-> expression,
                dimension |-> dimension, result |-> NoResult]
    /\ NoApp

SpecConstants == InitConstants /\ [][NextParse]_vars

\* The expression has one component per dimension and names pi or e.
NamesConstant ==
    \E cs \in [1..ps.dimension -> ConstantTexts] :
        /\ ps.expression = <<"[">> \o Join(cs) \o <<"]">>
        /\ \E i \in 1..ps.dimension : cs[i] \in {<<"e">>, <<"p", "i", "*", "x">>}

\* The value of a component where every coordinate is 1, with pi and e the
\* constants.
ValueAtOnes(node) ==
    MathEvaluate(node, [x |-> I(1), y |-> I(1), z |-> I(1), pi |-> MathPI, e |-> MathE]).v

\* C27: a formula that names pi or e as a symbol, such as "[pi*x, y]", is
\* accepted by parse and its evaluator computes with pi = Math.PI and
\* e = Math.E; the names of the constants are not reported as invalid
\* variables.
C27_ConstantSymbolsAccepted ==
    (Returned /\ ps.expression \in ConstantInputs /\ NamesConstant) =>
        /\ ps.result.error = NoError
        /\ {"pi", "e"} \cap Range(ps.result.error.names) = {}
        /\ \A out \in {CallFunc(ps.result.func,
                                 [x |-> I(1), y |-> I(1), z |-> I(1)], EmptyObject)} :
              /\ out.kind = "array"
              /\ Len(out.arr) = ps.dimension
              /\ \A i \in 1..ps.dimension :
                    out.arr[i] = ValueAtOnes(ps.result.func.comps[i])

----------------------------------------------------------------------------
\* C28: after any sequence of interface events, whenever updateVisualization
\* renders, the dimension of app.vectorField is state.dimension.
C28_RenderedFieldHasStateDimension ==
    (ui.constructed /\ ui.last.rendered) => vf.dimension = ui.dimension

----------------------------------------------------------------------------
\* The camera: SceneManager.switchDimension, CameraController, and
\* UIController.toggleDimension around them.  Camera objects are numbered
\* in the order initCamera makes them.

MaxToggles == 3

\* Animation frames of one transition that come before its half second is
\* over; how many there are depends on the clock.
MaxTransitionFrames == 2

NoSwitch == [active |-> FALSE, newDimension |-> 2, oldCamera |-> 0, frames |-> 0]

\* SceneManager.initCamera: a new camera object for the dimension.
initCamera(sc) == [sc EXCEPT !.camera = sc.made + 1, !.made = sc.made + 1]

\* CameraController.setDimension
setDimension(controller, dimension) == [controller EXCEPT !.dimension = dimension]

\* The state init() leaves: the SceneManager with its first camera, the
\* CameraController constructed on sceneManager.camera.
InitCamera ==
    /\ vf = NewVectorField(2, parse(InitialFunction, 2).func)
    /\ heap = [o \in {EngineObject} |-> EmptyObject]
    /\ ret = NoCall
    /\ rk = RkIdle
    /\ ps = PsIdle
    /\ view = NotConstructed
    /\ viz = NotConstructed
    /\ mode = NotConstructed
    /\ scene = initCamera([constructed |-> TRUE, meshes |-> <<>>, dimension |-> 2,
                           camera |-> 0, made |-> 0, moved |-> {},
                           switch |-> NoSwitch])
    /\ ui = [constructed |-> TRUE, dimension |-> 2, disabled |-> FALSE,
             awaiting |-> FALSE, toggles |-> 0]
    /\ app = [constructed |-> TRUE,
              cameraController |-> [camera |-> 1, dimension |-> 2,
                                    isDragging |-> FALSE],
              last |-> [op |-> "none", camera |-> 0]]

\* UIController.toggleDimension up to its await: the button is disabled and
\* sceneManager.switchDimension() has requested its first frame.
ToggleClick ==
    /\ ~ui.disabled
    /\ ui.toggles < MaxToggles
    /\ ui' = [ui EXCEPT !.disabled = TRUE, !.awaiting = TRUE]
    /\ scene' = [scene EXCEPT !.switch = [active |-> TRUE,
                                          newDimension |-> IF scene.dimension = 2 THEN 3 ELSE 2,
                                          oldCamera |-> scene.camera,
                                          frames |-> 0]]
    /\ app' = [app EXCEPT !.last = [op |-> "toggleDimension", camera |-> 0]]
    /\ UNCHANGED <<vf, heap, ret, rk, ps, view, mode, viz>>

\* A frame of the transition with progress < 1: the old camera is moved.
SwitchFrame ==
    /\ scene.switch.active
    /\ scene.switch.frames < MaxTransitionFrames
    /\ scene' = [scene EXCEPT !.switch.frames = @ + 1,
                              !.moved = @ \cup {scene.switch.oldCamera}]
    /\ app' = [app EXCEPT !.last = [op |-> "interpolate",
                                    camera |-> scene.switch.oldCamera]]
    /\ UNCHANGED <<vf, heap, ret, rk, ps, view, mode, ui, viz>>

\* The frame with progress = 1: dimension and camera are replaced and the
\* promise is resolved.
SwitchComplete ==
    /\ scene.switch.active
    /\ scene' = initCamera([scene EXCEPT !.dimension = scene.switch.newDimension,
                                         !.switch = NoSwitch])
    /\ app' = [app EXCEPT !.last = [op |-> "initCamera", camera |-> scene.made + 1]]
    /\ UNCHANGED <<vf, heap, ret, rk, ps, view, mode, ui, viz>>

\* UIController.toggleDimension after its await.
ToggleResume ==
    /\ ui.awaiting
    /\ ~scene.switch.active
    /\ ui' = [ui EXCEPT !.dimension = IF ui.dimension = 2 THEN 3 ELSE 2,
                        !.disabled = FALSE, !.awaiting = FALSE,
                        !.toggles = @ + 1]
    /\ app' = [app EXCEPT
                  !.cameraController =
                      setDimension(@, IF ui.dimension = 2 THEN 3 ELSE 2),
                  !.last = [op |-> "setDimension", camera |-> app.cameraController.camera]]
    /\ scene' = [clearMeshes(scene) EXCEPT !.moved = @ \cup {app.cameraController.camera}]
    /\ UNCHANGED <<vf, heap, ret, rk, ps, view, mode, viz>>

\* CameraController.onMouseDown
MouseDown ==
    /\ ~app.cameraController.isDragging
    /\ app' = [app EXCEPT !.cameraController.isDragging = TRUE,
                          !.last = [op |-> "mousedown", camera |-> 0]]
    /\ UNCHANGED <<vf, heap, ret, rk, ps, view, mode, scene, ui, viz>>

\* CameraController.onMouseUp
MouseUp ==
    /\ app.cameraController.isDragging
    /\ app' = [app EXCEPT !.cameraController.isDragging = FALSE,
                          !.last = [op |-> "mouseup", camera |-> 0]]
    /\ UNCHANGED <<vf, heap, ret, rk, ps, view, mode, scene, ui, viz>>

\* CameraController.onMouseMove while dragging: the controller moves the
\* camera it holds.
Pan ==
    /\ app.cameraController.isDragging
    /\ scene' = [scene EXCEPT !.moved = @ \cup {app.cameraController.camera}]
    /\ app' = [app EXCEPT !.last = [op |-> "pan", camera |-> app.cameraController.camera]]
    /\ UNCHANGED <<vf, heap, ret, rk, ps, view, mode, ui, viz>>

NextCamera ==
    \/ ToggleClick
    \/ SwitchFrame
    \/ SwitchComplete
    \/ ToggleResume
    \/ MouseDown
    \/ MouseUp
    \/ Pan

SpecCamera == InitCamera /\ [][NextCamera]_vars

\* C29: in every state after initialisation, also after any number of
\* completed toggles, the camera the CameraController moves is the camera
\* the SceneManager renders with; and once a toggle has completed,
\* sceneManager.dimension, cameraController.dimension and state.dimension
\* are equal.
C29_ControllerHoldsRenderedCamera ==
    app.constructed =>
        /\ app.cameraController.camera = scene.camera
        /\ (ui.toggles > 0 /\ ~ui.awaiting) =>
               /\ scene.dimension = ui.dimension
               /\ app.cameraController.dimension = ui.dimension

====
